---- MODULE Spec2Model ----
(***************************************************************************)
(* tokPay: offline payments with signed tokens.                            *)
(*                                                                         *)
(*   Spec          the backend (src/backend/server.js): POST /api/sync     *)
(*                 over the SQLite tables, one action per database         *)
(*                 callback.                                               *)
(*   SpecLoad      the backend under POST /api/load-balance and            *)
(*                 POST /api/sync.                                         *)
(*   SpecPolicy    the amount checks of POST /api/sync and of the          *)
(*                 merchant's verifyPaymentToken side by side.             *)
(*   SpecFault     POST /api/sync with UPDATE statements that fail.        *)
(*   SpecMalformed POST /api/sync on batches with malformed entries.       *)
(*   SpecWallet    the wallet app: the context reducer and                 *)
(*                 signPaymentToken, the BLE client                        *)
(*                 (src/wallet/src/services/BLEService.js) and the payment *)
(*                 screen (src/wallet/src/screens/PaymentScreen.js).       *)
(*   SpecMerchant  the merchant app: the context reducer and               *)
(*                 verifyPaymentToken (src/unnamed/part_003), the QR       *)
(*                 rotation and the payment handler of the home screen     *)
(*                 (src/merchant/src/screens/LoginScreen.js, second half). *)
(*   SpecMerchantSync the merchant's pendingSync queue under payments and  *)
(*                 TransactionsScreen.handleSync                           *)
(*                 (src/merchant/src/screens/TransactionsScreen.js).       *)
(*   SpecExchange  the wallet app over a transport that may never answer,  *)
(*                 with the fairness of the event loop.                    *)
(*   SpecIntegrity the wallet's signPaymentToken and the merchant's         *)
(*                 verifyPaymentToken on the tokens signed, untouched or   *)
(*                 with one field changed.                                 *)
(*   SpecScan      the wallet's scan screen                                *)
(*                 (src/wallet/src/screens/ScanQRScreen.js) on the codes   *)
(*                 the merchant's home screen shows as time passes.        *)
(*   SpecLockout   the backend under POST /api/auth/login for a user, with *)
(*                 right and wrong passwords, as time passes.              *)
(*   SpecSession   the backend under logins, POST /api/auth/refresh and    *)
(*                 POST /api/auth/logout of a user and of a merchant.      *)
(***************************************************************************)
EXTENDS Integers, Sequences, FiniteSets, TLC

VARIABLES
    users,          \* backend: users table, phone -> [balance, offline_balance]
    merchants,      \* backend: merchants table, merchant_id -> balance
    transactions,   \* backend: transactions table, rows in insertion order
    reqs,           \* backend: the POST /api/sync requests received so far
    stmts,          \* backend: UPDATE statements queued by /api/sync, not yet run
    applied,        \* backend: UPDATE statements of /api/sync that have run
    loads,          \* backend: the POST /api/load-balance requests received so far
    mstate,         \* merchant: reducer state of the AppProvider
    now,            \* merchant: Date.now(), in milliseconds
    qr,             \* merchant: HomeScreen qrData/countdown and the descriptors minted
    ble,            \* merchant: BLEService fields
    lastCall,       \* merchant: the last payment processed and its outcome
    msync,          \* merchant: TransactionsScreen.handleSync and its request
    wstate,         \* wallet: reducer state of the AppProvider
    wkeys,          \* wallet: position of loadOrCreateKeyPair
    wble,           \* wallet: BLEService fields
    pay,            \* wallet: PaymentScreen state and the running handlePay
    signed,         \* wallet: the tokens signPaymentToken has returned, in order
    acked,          \* wallet: txnIds for which sendPayment returned success
    scan,           \* wallet: ScanQRScreen state and the last code it was shown
    authdb,         \* backend: failed_attempts/locked_until of the accounts, refresh_tokens
    authreqs,       \* backend: the login, refresh and logout requests being served
    authstmts,      \* backend: statements queued by the auth routes, not yet run
    authclock,      \* backend: new Date(), in minutes
    authlog         \* backend: what the auth routes have answered so far

serverVars   == <<users, merchants, transactions, reqs, stmts, applied, loads>>
merchantVars == <<mstate, now, qr, ble, lastCall, msync>>
walletVars   == <<wstate, wkeys, wble, pay, signed, acked, scan>>
authVars     == <<authdb, authreqs, authstmts, authclock, authlog>>
vars         == <<users, merchants, transactions, reqs, stmts, applied, loads,
                  mstate, now, qr, ble, lastCall, msync,
                  wstate, wkeys, wble, pay, signed, acked, scan,
                  authdb, authreqs, authstmts, authclock, authlog>>

Null == "null"

\* The value JavaScript arithmetic gives when an operand is undefined.
NaN == -1000000

Minus(a, b) == IF a = NaN \/ b = NaN THEN NaN ELSE a - b

\* Mutant: a comparison that never reports a > b.
GreaterNever(a, b) == FALSE

\* a > b in JavaScript: false when an operand is NaN.
Greater(a, b) == a # NaN /\ b # NaN /\ a > b

(***************************************************************************)
(* Bounds of the model.                                                    *)
(***************************************************************************)
MaxElements     == 2    \* Spec: batch elements over all /api/sync requests of a run
MaxLoads        == 3    \* SpecLoad: /api/load-balance requests of a run
MaxLoadElements == 1    \* SpecLoad: batch elements over all /api/sync requests
MaxPolicyElements == 1  \* SpecPolicy: batch elements over all /api/sync requests

(***************************************************************************)
(* Program constants.                                                      *)
(***************************************************************************)
MaxTxnAmount      == 500     \* per-transaction cap
MaxOfflineBalance == 2000    \* offline balance cap

(***************************************************************************)
(* Signatures.  An Ed25519 detached signature is modelled as the pair of   *)
(* the signing key and the signed field values; it verifies under a public *)
(* key iff the key is that key's owner and the fields are the signed ones. *)
(***************************************************************************)
Sign(key, msg) == [key |-> key, msg |-> msg]

\* Mutant: a verification that looks at the key and not at the message.
SigVerifyKeyOnly(msg, signature, publicKey) ==
    /\ signature.key # Null
    /\ publicKey # Null
    /\ signature.key = publicKey

SigVerify(msg, signature, publicKey) ==
    /\ signature.key # Null
    /\ publicKey # Null
    /\ signature.key = publicKey
    /\ signature.msg = msg

(***************************************************************************)
(*                              BACKEND                                    *)
(***************************************************************************)
Phones      == {"u1"}            \* registered users
MerchantIds == {"m1"}            \* registered merchants
PublicKeyOf(phone) == IF phone \in Phones THEN "key_" \o phone ELSE Null

\* The fields of a batch element that a payer signs.
SyncSigned(txnId, fromPhone, toMerchant, amount, counter) ==
    <<txnId, fromPhone, toMerchant, amount, counter>>

SyncToken(txnId, fromPhone, toMerchant, amount, counter, signature) ==
    [txnId |-> txnId, fromPhone |-> fromPhone, toMerchant |-> toMerchant,
     amount |-> amount, counter |-> counter, signature |-> signature]

Signed(txnId, fromPhone, toMerchant, amount, counter, key) ==
    SyncToken(txnId, fromPhone, toMerchant, amount, counter,
              Sign(key, SyncSigned(txnId, fromPhone, toMerchant, amount, counter)))

\* The batch elements a client may submit.
SyncTokens ==
    { Signed("t1", "u1", "m1", 300, 1, "key_u1"),       \* ordinary token
      Signed("t2", "u1", "m1", 300, 0, "key_u1"),       \* same payer, lower counter
      Signed("t3", "u1", "m1", 600, 2, "key_u1"),       \* above the cap
      Signed("t4", "u1", "m1", -100, 3, "key_u1"),      \* negative amount
      Signed("t5", "u1", "m1", 300, 4, "key_x") }       \* signed with another key

\* The batch elements submitted where load-balance requests are in play: one
\* that debits the payer's offline balance and one that credits it.
LoadSyncTokens == { txn \in SyncTokens : txn.txnId \in {"t1", "t4"} }

\* A batch entry that is null, and an object without any of the fields (each
\* destructured name is undefined and is bound as NULL).
NullEntry == [null |-> TRUE]
IsNullEntry(txn) == "null" \in DOMAIN txn
MissingFields == SyncToken(Null, Null, Null, NaN, NaN, Sign(Null, <<>>))

\* The batch elements submitted where malformed entries are in play.
MalformedSyncTokens ==
    { txn \in SyncTokens : txn.txnId = "t1" } \cup {MissingFields, NullEntry}

\* The batch elements submitted where storage faults are in play: a token of a
\* registered payer and one whose fromPhone is no registered user.
FaultSyncTokens ==
    { txn \in SyncTokens : txn.txnId = "t1" }
        \cup { Signed("t6", "u9", "m1", 300, 1, "key_u9") }

Batches(tokens, limit) == UNION { [1..n -> tokens] : n \in 0..limit }

InitialBalances == {1000}    \* main balance a user is registered with

InitServer ==
    /\ users \in [Phones -> [balance : InitialBalances, offline_balance : {0}]]
    /\ merchants = [m \in MerchantIds |-> 0]
    /\ transactions = <<>>
    /\ reqs = <<>>
    /\ stmts = {}
    /\ applied = {}
    /\ loads = <<>>

(***************************************************************************)
(* POST /api/sync.  The handler queues one existence lookup per element    *)
(* (pc "get"); the lookup's callback answers the element or queues the     *)
(* INSERT (pc "insert"); the INSERT's callback queues the two UPDATEs and  *)
(* answers the element (pc "done").  Queued statements run in any order.   *)
(***************************************************************************)
\* What a request counts against the bound on batch elements: its elements (an
\* empty batch counts 1).
Cost(batch) == IF Len(batch) = 0 THEN 1 ELSE Len(batch)

ElementsSubmitted == LET RECURSIVE Sum(_)
                         Sum(k) == IF k = 0 THEN 0 ELSE Cost(reqs[k].batch) + Sum(k - 1)
                     IN  Sum(Len(reqs))

Answered == { r \in 1..Len(reqs) : reqs[r].responseSent }

\* sendResponse(): answers once, when every element has an outcome.
sendResponse(req) ==
    IF ~req.responseSent /\ req.processed + req.failed = Len(req.batch)
    THEN [req EXCEPT !.responseSent = TRUE, !.sent = Append(@, 200)]
    ELSE req

\* An element's callback counts it as processed or failed, pushes {txnId, status}
\* to results and calls sendResponse().  The model keeps the pushed status at the
\* element's index (outcome) and the length of results.
Outcome(req, i, status, ok) ==
    sendResponse([req EXCEPT !.pc[i] = "done",
                             !.outcome[i] = status,
                             !.processed = IF ok THEN @ + 1 ELSE @,
                             !.failed = IF ok THEN @ ELSE @ + 1,
                             !.results = @ + 1])

\* The first entry of the batch that is null (Len(batch) + 1 if none):
\* destructuring it throws, which ends transactions.forEach and the handler.
FirstNull(batch) ==
    IF \E i \in 1..Len(batch) : IsNullEntry(batch[i])
    THEN CHOOSE i \in 1..Len(batch) :
             IsNullEntry(batch[i]) /\ \A j \in 1..(i - 1) : ~IsNullEntry(batch[j])
    ELSE Len(batch) + 1

\* The handler of POST /api/sync: an empty batch is answered at once; otherwise
\* a lookup is queued for each entry in array order.  When the handler throws,
\* the entries from the null one on are never reached and the framework answers
\* the request with status 500.  `sent` lists the HTTP responses of the request.
SyncRequest(batch, limit) ==
    /\ ElementsSubmitted + Cost(batch) <= limit
    /\ reqs' = Append(reqs,
                 [batch |-> batch,
                  pc |-> [i \in 1..Len(batch) |->
                             IF i < FirstNull(batch) THEN "get" ELSE "unreached"],
                  outcome |-> [i \in 1..Len(batch) |-> ""],
                  processed |-> 0, failed |-> 0, results |-> 0,
                  responseSent |-> (Len(batch) = 0),
                  sent |-> IF Len(batch) = 0 THEN <<200>>
                           ELSE IF FirstNull(batch) <= Len(batch) THEN <<500>>
                           ELSE <<>>,
                  after |-> Answered])
    /\ UNCHANGED <<users, merchants, transactions, stmts, applied, loads>>
    /\ UNCHANGED merchantVars
    /\ UNCHANGED authVars
    /\ UNCHANGED walletVars

\* Mutant: the existence lookup finds nothing.
ExistingNone(txnId) == {}

\* SELECT * FROM transactions WHERE txn_id = ?
Existing(txnId) == { k \in 1..Len(transactions) : transactions[k].txn_id = txnId }

\* Mutant: the amount check of the lookup callback left out.
SyncAmountExceededOff(txn) == FALSE

\* else if (amount > 500)
SyncAmountExceeded(txn) == txn.amount > MaxTxnAmount

SyncGet(r, i) ==
    /\ reqs[r].pc[i] = "get"
    /\ LET txn == reqs[r].batch[i] IN
       reqs' = [reqs EXCEPT ![r] =
                  IF Existing(txn.txnId) # {} THEN Outcome(@, i, "duplicate", FALSE)
                  ELSE IF SyncAmountExceeded(txn) THEN Outcome(@, i, "amount_exceeded", FALSE)
                  ELSE [@ EXCEPT !.pc[i] = "insert"]]
    /\ UNCHANGED <<users, merchants, transactions, stmts, applied, loads>>
    /\ UNCHANGED merchantVars
    /\ UNCHANGED authVars
    /\ UNCHANGED walletVars

\* Mutant: a transactions table without the PRIMARY KEY on txn_id.
InsertFailsNoKey(row) ==
    \/ row.from_phone = Null
    \/ row.to_merchant = Null
    \/ row.amount = NaN
    \/ row.counter = NaN
    \/ row.signature.key = Null

\* The constraints of the transactions table: txn_id PRIMARY KEY, NOT NULL columns.
InsertFails(row) ==
    \/ \E k \in 1..Len(transactions) : transactions[k].txn_id = row.txn_id
    \/ row.from_phone = Null
    \/ row.to_merchant = Null
    \/ row.amount = NaN
    \/ row.counter = NaN
    \/ row.signature.key = Null

\* Mutant: an insert that also stamps the rows already in the table as 'synced'.
SyncInsertRestamp(r, i) ==
    /\ reqs[r].pc[i] = "insert"
    /\ LET txn == reqs[r].batch[i]
           row == [txn_id |-> txn.txnId, from_phone |-> txn.fromPhone,
                   to_merchant |-> txn.toMerchant, amount |-> txn.amount,
                   counter |-> txn.counter, signature |-> txn.signature,
                   status |-> "completed"]
       IN  IF InsertFails(row)
           THEN /\ reqs' = [reqs EXCEPT ![r] = Outcome(@, i, "error", FALSE)]
                /\ UNCHANGED <<transactions, stmts>>
           ELSE /\ transactions' =
                     Append([k \in 1..Len(transactions) |->
                                [transactions[k] EXCEPT !.status = "synced"]], row)
                /\ stmts' = stmts \cup
                     { [op |-> "debit", amount |-> txn.amount, key |-> txn.fromPhone,
                        txnId |-> txn.txnId, req |-> r, idx |-> i],
                       [op |-> "credit", amount |-> txn.amount, key |-> txn.toMerchant,
                        txnId |-> txn.txnId, req |-> r, idx |-> i] }
                /\ reqs' = [reqs EXCEPT ![r] = Outcome(@, i, "success", TRUE)]
    /\ UNCHANGED <<users, merchants, applied, loads>>
    /\ UNCHANGED merchantVars
    /\ UNCHANGED authVars
    /\ UNCHANGED walletVars

SyncInsert(r, i) ==
    /\ reqs[r].pc[i] = "insert"
    /\ LET txn == reqs[r].batch[i]
           row == [txn_id |-> txn.txnId, from_phone |-> txn.fromPhone,
                   to_merchant |-> txn.toMerchant, amount |-> txn.amount,
                   counter |-> txn.counter, signature |-> txn.signature,
                   status |-> "completed"]
       IN  IF InsertFails(row)
           THEN /\ reqs' = [reqs EXCEPT ![r] = Outcome(@, i, "error", FALSE)]
                /\ UNCHANGED <<transactions, stmts>>
           ELSE /\ transactions' = Append(transactions, row)
                /\ stmts' = stmts \cup
                     { [op |-> "debit", amount |-> txn.amount, key |-> txn.fromPhone,
                        txnId |-> txn.txnId, req |-> r, idx |-> i],
                       [op |-> "credit", amount |-> txn.amount, key |-> txn.toMerchant,
                        txnId |-> txn.txnId, req |-> r, idx |-> i] }
                /\ reqs' = [reqs EXCEPT ![r] = Outcome(@, i, "success", TRUE)]
    /\ UNCHANGED <<users, merchants, applied, loads>>
    /\ UNCHANGED merchantVars
    /\ UNCHANGED authVars
    /\ UNCHANGED walletVars

\* UPDATE users SET offline_balance = offline_balance - ? WHERE phone = ?
\* UPDATE merchants SET balance = balance + ? WHERE merchant_id = ?
RunUpdate(s) ==
    /\ s \in stmts
    /\ stmts' = stmts \ {s}
    /\ applied' = applied \cup {s}
    /\ IF s.op = "debit"
       THEN /\ users' = [p \in DOMAIN users |->
                           IF p = s.key
                           THEN [users[p] EXCEPT !.offline_balance = @ - s.amount]
                           ELSE users[p]]
            /\ UNCHANGED merchants
       ELSE /\ merchants' = [m \in DOMAIN merchants |->
                               IF m = s.key THEN merchants[m] + s.amount ELSE merchants[m]]
            /\ UNCHANGED users
    /\ UNCHANGED <<transactions, reqs, loads>>
    /\ UNCHANGED merchantVars
    /\ UNCHANGED authVars
    /\ UNCHANGED walletVars

\* A queued UPDATE fails in the database; db.run was given no callback, so the
\* error goes nowhere.
UpdateFails(s) ==
    /\ s \in stmts
    /\ stmts' = stmts \ {s}
    /\ UNCHANGED <<users, merchants, transactions, reqs, applied, loads>>
    /\ UNCHANGED merchantVars
    /\ UNCHANGED authVars
    /\ UNCHANGED walletVars

(***************************************************************************)
(* POST /api/load-balance: validation, then the SELECT callback checks the *)
(* cap and the main balance against the row it read (pc "run"), then the   *)
(* UPDATE runs.                                                            *)
(***************************************************************************)
\* Amounts asked for: invalid, loadable, above the main balance, above the cap.
LoadAmounts == {0, 300, 1000, 2000, 2300}

LoadRequest(phone, amount) ==
    /\ Len(loads) < MaxLoads
    /\ loads' = Append(loads,
          IF amount <= 0 THEN
              [phone |-> phone, amount |-> amount, pc |-> "done", status |-> 400,
               error |-> "Invalid amount", more |-> 0]
          ELSE IF amount > MaxOfflineBalance THEN
              [phone |-> phone, amount |-> amount, pc |-> "done", status |-> 400,
               error |-> "Maximum offline balance", more |-> 0]
          ELSE
              [phone |-> phone, amount |-> amount, pc |-> "get", status |-> 0,
               error |-> "", more |-> 0])
    /\ UNCHANGED <<users, merchants, transactions, reqs, stmts, applied>>
    /\ UNCHANGED merchantVars
    /\ UNCHANGED authVars
    /\ UNCHANGED walletVars

\* Mutant: the lookup callback without the cap check.
LoadGetNoCap(l) ==
    /\ loads[l].pc = "get"
    /\ LET user == users[loads[l].phone]
           amount == loads[l].amount
       IN  loads' = [loads EXCEPT ![l] =
              IF user.balance < amount THEN
                  [@ EXCEPT !.pc = "done", !.status = 400, !.error = "Insufficient balance"]
              ELSE [@ EXCEPT !.pc = "run"]]
    /\ UNCHANGED <<users, merchants, transactions, reqs, stmts, applied>>
    /\ UNCHANGED merchantVars
    /\ UNCHANGED authVars
    /\ UNCHANGED walletVars

LoadGet(l) ==
    /\ loads[l].pc = "get"
    /\ LET user == users[loads[l].phone]
           amount == loads[l].amount
       IN  loads' = [loads EXCEPT ![l] =
              IF user.offline_balance + amount > MaxOfflineBalance THEN
                  [@ EXCEPT !.pc = "done", !.status = 400, !.error = "Can only load more",
                            !.more = MaxOfflineBalance - user.offline_balance]
              ELSE IF user.balance < amount THEN
                  [@ EXCEPT !.pc = "done", !.status = 400, !.error = "Insufficient balance"]
              ELSE [@ EXCEPT !.pc = "run"]]
    /\ UNCHANGED <<users, merchants, transactions, reqs, stmts, applied>>
    /\ UNCHANGED merchantVars
    /\ UNCHANGED authVars
    /\ UNCHANGED walletVars

LoadRun(l) ==
    /\ loads[l].pc = "run"
    /\ users' = [users EXCEPT ![loads[l].phone] =
                    [@ EXCEPT !.balance = @ - loads[l].amount,
                              !.offline_balance = @ + loads[l].amount]]
    /\ loads' = [loads EXCEPT ![l] = [@ EXCEPT !.pc = "done", !.status = 200]]
    /\ UNCHANGED <<merchants, transactions, reqs, stmts, applied>>
    /\ UNCHANGED merchantVars
    /\ UNCHANGED authVars
    /\ UNCHANGED walletVars

(***************************************************************************)
(*                        BACKEND: AUTH ROUTES                             *)
(* POST /api/auth/login, /api/merchant/login, /api/auth/refresh and        *)
(* /api/auth/logout of src/backend/server.js.  A request is served on one  *)
(* of the connections; a db.get or a db.run with a callback is one step    *)
(* (its statement and its callback), `await bcrypt.compare` ends a step,   *)
(* and a db.run without a callback is queued in authstmts and runs later,  *)
(* in any order.                                                           *)
(***************************************************************************)
LockThreshold   == 5        \* newAttempts >= 5
LockMinutes     == 15       \* Date.now() + 15 * 60 * 1000
AccessMinutes   == 15       \* expiresIn: '15m'
RefreshMinutes  == 10080    \* expiresIn: '7d', and expires_at of the stored row
AuthTickMinutes == 8        \* minutes between two observations of the clock
MaxAuthTicks    == 2        \* clock observations of a run
MaxLockoutReqs  == 4        \* login requests of a run of SpecLockout
MaxSessionReqs  == 4        \* auth requests of a run of SpecSession
MaxInFlight     == 2        \* connections serving auth requests

Connections == 1..MaxInFlight
AuthTables  == {"users", "merchants"}

\* The registered accounts: phone numbers of the users table and of the
\* merchants table, and the merchant_id of a merchant row.
Registered == [users |-> {"u1"}, merchants |-> {"pm1"}]
MerchantIdOf(phone) == "m1"
Password == "pw"            \* the password both accounts registered with

\* bcrypt.hash and bcrypt.compare.
bcryptHash(password) == <<"bcrypt", password>>
bcryptCompare(password, hash) == hash = bcryptHash(password)

\* crypto.createHash('sha256').update(token).digest('hex')
sha256(token) == <<"sha256", token>>

\* A JWT: the payload's fields, the expiry jwt.sign adds, the secret it was
\* signed with.  n tells apart two tokens signed for the same payload.
NoToken == [type |-> "", phone |-> "", merchantId |-> "", n |-> 0, exp |-> 0,
            secret |-> ""]
Forged  == [type |-> "user", phone |-> "u1", merchantId |-> "", n |-> 0,
            exp |-> RefreshMinutes, secret |-> "forged"]
NoTokens == [accessToken |-> NoToken, refreshToken |-> NoToken]

jwtSign(payload, n, exp) ==
    [type |-> payload.type, phone |-> payload.phone,
     merchantId |-> payload.merchantId, n |-> n, exp |-> exp,
     secret |-> "JWT_SECRET"]

jwtVerify(token, t) == token.secret = "JWT_SECRET" /\ token.exp > t

generateTokens(payload, n, t) ==
    [accessToken  |-> jwtSign(payload, n, t + AccessMinutes),
     refreshToken |-> jwtSign(payload, n, t + RefreshMinutes)]

\* The payload the login route of a table signs.
LoginPayload(table, phone) ==
    IF table = "users"
    THEN [type |-> "user", phone |-> phone, merchantId |-> ""]
    ELSE [type |-> "merchant", phone |-> phone, merchantId |-> MerchantIdOf(phone)]

\* locked_until is {} for NULL and {t} for a time.
isAccountLocked(lockedUntil, t) == \E until \in lockedUntil : until > t

NoRow == [failed_attempts |-> 0, locked_until |-> {}, password_hash |-> <<>>]

IdleRequest ==
    [op |-> "none", pc |-> "idle", table |-> "", phone |-> "", password |-> "",
     token |-> NoToken, row |-> NoRow, status |-> 0, tokens |-> NoTokens]

\* What is left of a request once res.json has been called.
Respond(request, status, tokens) ==
    [IdleRequest EXCEPT !.op = request.op, !.pc = "done", !.status = status,
                        !.tokens = tokens]

\* The statements the routes queue with db.run and no callback.
SetAttempts(table, phone, attempts, lockUntil) ==
    [op |-> "UPDATE account", table |-> table, phone |-> phone,
     failed_attempts |-> attempts, locked_until |-> lockUntil,
     token_hash |-> <<>>, id |-> 0, expires_at |-> 0, n |-> 0]
InsertRefresh(table, phone, hash, expires, n) ==
    [op |-> "INSERT refresh_tokens", table |-> table, phone |-> phone,
     failed_attempts |-> 0, locked_until |-> {},
     token_hash |-> hash, id |-> 0, expires_at |-> expires, n |-> n]
UpdateRefresh(id, hash, n) ==
    [op |-> "UPDATE refresh_tokens", table |-> "", phone |-> "",
     failed_attempts |-> 0, locked_until |-> {},
     token_hash |-> hash, id |-> id, expires_at |-> 0, n |-> n]

\* failed_attempts of the accounts when a run starts: a fresh account, or one
\* that has had three wrong passwords in a row, each answered 401.
InitialAttempts == {0, 3}

InitAuth(initial) ==
    /\ \E attempts \in initial :
        /\ authdb = [accounts |->
                        [table \in AuthTables |->
                            [phone \in Registered[table] |->
                                [failed_attempts |-> attempts, locked_until |-> {},
                                 password_hash |-> bcryptHash(Password)]]],
                     refresh_tokens |-> {},
                     lastId |-> 0]
        /\ authlog = [requests |-> 0, ticks |-> 0, serial |-> 0,
                      run |-> [table \in AuthTables |->
                                  [phone \in Registered[table] |-> attempts]],
                      access |-> {}, refresh |-> {}, atLogin |-> {},
                      revoked |-> {}, spent |-> {}]
    /\ authreqs = [c \in Connections |-> IdleRequest]
    /\ authstmts = {}
    /\ authclock = 0

\* A request is served on the first connection that serves none.
Free(c) ==
    /\ authreqs[c].pc \in {"idle", "done"}
    /\ \A d \in Connections : d < c => authreqs[d].pc \notin {"idle", "done"}

\* POST /api/auth/login (table "users") and POST /api/merchant/login (table
\* "merchants") up to the db.get they queue.
LoginRequest(c, table, phone, password, limit) ==
    /\ Free(c)
    /\ authlog.requests < limit
    /\ LET request == [IdleRequest EXCEPT !.op = "login", !.table = table,
                                          !.phone = phone, !.password = password]
       IN  authreqs' = [authreqs EXCEPT ![c] =
                IF phone = "" \/ password = ""
                THEN Respond(request, 400, NoTokens)
                ELSE [request EXCEPT !.pc = "get"]]
    /\ authlog' = [authlog EXCEPT !.requests = @ + 1]
    /\ UNCHANGED <<authdb, authstmts, authclock>>
    /\ UNCHANGED serverVars
    /\ UNCHANGED merchantVars
    /\ UNCHANGED walletVars

\* The SELECT of a login and its callback up to `await bcrypt.compare`.
LoginGet(c) ==
    /\ authreqs[c].op = "login"
    /\ authreqs[c].pc = "get"
    /\ LET request == authreqs[c]
           table   == authdb.accounts[request.table]
       IN  authreqs' = [authreqs EXCEPT ![c] =
                IF request.phone \notin DOMAIN table
                THEN Respond(request, 401, NoTokens)
                ELSE IF isAccountLocked(table[request.phone].locked_until, authclock)
                THEN Respond(request, 423, NoTokens)
                ELSE [request EXCEPT !.pc = "compare",
                                     !.row = table[request.phone]]]
    /\ UNCHANGED <<authdb, authstmts, authclock, authlog>>
    /\ UNCHANGED serverVars
    /\ UNCHANGED merchantVars
    /\ UNCHANGED walletVars

\* The rest of the login callback, once bcrypt.compare has settled.
LoginCompare(c) ==
    /\ authreqs[c].op = "login"
    /\ authreqs[c].pc = "compare"
    /\ LET request     == authreqs[c]
           n           == authlog.serial + 1
           newAttempts == request.row.failed_attempts + 1
           lockUntil   == IF newAttempts >= LockThreshold
                          THEN {authclock + LockMinutes} ELSE {}
           tokens      == generateTokens(LoginPayload(request.table, request.phone),
                                         n, authclock)
       IN  IF ~bcryptCompare(request.password, request.row.password_hash)
           THEN /\ authstmts' = authstmts \cup
                        {SetAttempts(request.table, request.phone, newAttempts,
                                     lockUntil)}
                /\ authreqs' = [authreqs EXCEPT ![c] =
                        Respond(request,
                                 IF request.table = "users" /\ lockUntil # {}
                                 THEN 423 ELSE 401,
                                 NoTokens)]
                /\ authlog' = [authlog EXCEPT
                        !.run[request.table][request.phone] = @ + 1]
           ELSE /\ authstmts' = authstmts \cup
                        {SetAttempts(request.table, request.phone, 0, {}),
                         InsertRefresh(request.table, request.phone,
                                       sha256(tokens.refreshToken),
                                       authclock + RefreshMinutes, n)}
                /\ authreqs' = [authreqs EXCEPT ![c] = Respond(request, 200, tokens)]
                /\ authlog' = [authlog EXCEPT
                        !.serial = n,
                        !.run[request.table][request.phone] = 0,
                        !.access = @ \cup {tokens.accessToken},
                        !.refresh = @ \cup {tokens.refreshToken},
                        !.atLogin = @ \cup {tokens.refreshToken}]
    /\ UNCHANGED <<authdb, authclock>>
    /\ UNCHANGED serverVars
    /\ UNCHANGED merchantVars
    /\ UNCHANGED walletVars

\* A queued statement of the auth routes runs.
RunAuthStatement(s) ==
    /\ s \in authstmts
    /\ authstmts' = authstmts \ {s}
    /\ authdb' =
         CASE s.op = "UPDATE account" ->
                [authdb EXCEPT !.accounts[s.table][s.phone] =
                    [@ EXCEPT !.failed_attempts = s.failed_attempts,
                              !.locked_until = s.locked_until]]
           [] s.op = "INSERT refresh_tokens" ->
                [authdb EXCEPT
                    !.lastId = @ + 1,
                    !.refresh_tokens = @ \cup
                        {[id |-> authdb.lastId + 1,
                          user_phone |-> IF s.table = "users" THEN s.phone ELSE Null,
                          merchant_id |-> IF s.table = "users" THEN Null
                                          ELSE MerchantIdOf(s.phone),
                          token_hash |-> s.token_hash,
                          expires_at |-> s.expires_at]}]
           [] s.op = "UPDATE refresh_tokens" ->
                [authdb EXCEPT !.refresh_tokens =
                    { IF row.id = s.id
                      THEN [row EXCEPT !.token_hash = s.token_hash]
                      ELSE row : row \in @ }]
    /\ UNCHANGED <<authreqs, authclock, authlog>>
    /\ UNCHANGED serverVars
    /\ UNCHANGED merchantVars
    /\ UNCHANGED walletVars

\* POST /api/auth/refresh up to the db.get it queues.
RefreshRequest(c, refreshToken, limit) ==
    /\ Free(c)
    /\ authlog.requests < limit
    /\ LET request == [IdleRequest EXCEPT !.op = "refresh", !.token = refreshToken]
       IN  authreqs' = [authreqs EXCEPT ![c] =
                IF refreshToken = NoToken
                THEN Respond(request, 400, NoTokens)
                ELSE IF ~jwtVerify(refreshToken, authclock)
                THEN Respond(request, 403, NoTokens)
                ELSE [request EXCEPT !.pc = "get"]]
    /\ authlog' = [authlog EXCEPT !.requests = @ + 1]
    /\ UNCHANGED <<authdb, authstmts, authclock>>
    /\ UNCHANGED serverVars
    /\ UNCHANGED merchantVars
    /\ UNCHANGED walletVars

\* The rows the SELECT of the refresh route matches.
StoredRefresh(refreshToken, t) ==
    { row \in authdb.refresh_tokens :
        row.token_hash = sha256(refreshToken) /\ row.expires_at > t }

\* The SELECT of a refresh and its callback.
RefreshGet(c) ==
    /\ authreqs[c].op = "refresh"
    /\ authreqs[c].pc = "get"
    /\ LET request == authreqs[c]
           found   == StoredRefresh(request.token, authclock)
           n       == authlog.serial + 1
           tokens  == generateTokens(request.token, n, authclock)
       IN  IF found = {}
           THEN /\ authreqs' = [authreqs EXCEPT ![c] = Respond(request, 403, NoTokens)]
                /\ UNCHANGED <<authstmts, authlog>>
           ELSE /\ authstmts' = authstmts \cup
                        {UpdateRefresh((CHOOSE row \in found : TRUE).id,
                                       sha256(tokens.refreshToken), n)}
                /\ authreqs' = [authreqs EXCEPT ![c] = Respond(request, 200, tokens)]
                /\ authlog' = [authlog EXCEPT
                        !.serial = n,
                        !.access = @ \cup {tokens.accessToken},
                        !.refresh = @ \cup {tokens.refreshToken},
                        !.spent = @ \cup {request.token}]
    /\ UNCHANGED <<authdb, authclock>>
    /\ UNCHANGED serverVars
    /\ UNCHANGED merchantVars
    /\ UNCHANGED walletVars

\* authenticateToken: the status it answers with, 0 if it calls next().
authenticateToken(token, t) ==
    IF token = NoToken THEN 401
    ELSE IF ~jwtVerify(token, t) THEN 403
    ELSE 0

\* POST /api/auth/logout up to the DELETE it queues.
LogoutRequest(c, accessToken, limit) ==
    /\ Free(c)
    /\ authlog.requests < limit
    /\ LET request == [IdleRequest EXCEPT !.op = "logout", !.token = accessToken,
                                          !.phone = accessToken.phone]
           refused == authenticateToken(accessToken, authclock)
       IN  authreqs' = [authreqs EXCEPT ![c] =
                IF refused # 0
                THEN Respond(request, refused, NoTokens)
                ELSE [request EXCEPT !.pc = "delete"]]
    /\ authlog' = [authlog EXCEPT !.requests = @ + 1]
    /\ UNCHANGED <<authdb, authstmts, authclock>>
    /\ UNCHANGED serverVars
    /\ UNCHANGED merchantVars
    /\ UNCHANGED walletVars

\* The DELETE of a logout and its callback.
LogoutDelete(c) ==
    /\ authreqs[c].op = "logout"
    /\ authreqs[c].pc = "delete"
    /\ LET request == authreqs[c]
       IN  /\ authdb' = [authdb EXCEPT !.refresh_tokens =
                            { row \in @ : row.user_phone # request.phone }]
           /\ authreqs' = [authreqs EXCEPT ![c] = Respond(request, 200, NoTokens)]
           /\ authlog' = [authlog EXCEPT !.revoked = @ \cup
                            { token \in authlog.atLogin :
                                /\ token.type = request.token.type
                                /\ token.phone = request.token.phone }]
    /\ UNCHANGED <<authstmts, authclock>>
    /\ UNCHANGED serverVars
    /\ UNCHANGED merchantVars
    /\ UNCHANGED walletVars

\* Time passes on the backend.
AuthTick ==
    /\ authlog.ticks < MaxAuthTicks
    /\ authclock' = authclock + AuthTickMinutes
    /\ authlog' = [authlog EXCEPT !.ticks = @ + 1]
    /\ UNCHANGED <<authdb, authreqs, authstmts>>
    /\ UNCHANGED serverVars
    /\ UNCHANGED merchantVars
    /\ UNCHANGED walletVars

(***************************************************************************)
(*                             MERCHANT APP                                *)
(***************************************************************************)
Start          == 100000   \* Date.now() when the app starts
TickMs         == 1000     \* period of the home screen's interval timer
QrPeriod       == 18       \* countdown between two QR descriptors
StaleMs        == 60000    \* token expiry of verifyPaymentToken
MaxTicks       == 19       \* timer ticks of a run
MaxAccepted    == 2        \* payments recorded by the reducer in a run
MaxSyncs       == 2        \* presses of the Sync button in a run

\* tokenData of signPaymentToken, in the order JSON.stringify writes it.
TokenData(token) ==
    <<token.from, token.to, token.amount, token.counter, token.timestamp, token.txnId>>

PaymentToken(from, to, amount, counter, timestamp, txnId, key, publicKey) ==
    [from |-> from, to |-> to, amount |-> amount, counter |-> counter,
     timestamp |-> timestamp, txnId |-> txnId,
     signature |-> Sign(key, <<from, to, amount, counter, timestamp, txnId>>),
     publicKey |-> publicKey]

\* The tokens a payer may write to the payment characteristic.
PaymentTokens ==
    { PaymentToken("u1", "m1", 300, 0, Start, "TXN-a", "key_u1", "key_u1"),
      PaymentToken("u1", "m1", 300, 1, Start, "TXN-b", "key_u1", "key_u1"),
      PaymentToken("u1", "m1", 600, 2, Start, "TXN-c", "key_u1", "key_u1"),
      PaymentToken("u1", "m1", -100, 2, Start, "TXN-d", "key_u1", "key_u1"),
      PaymentToken("u1", "m1", 300, 2, Start - StaleMs, "TXN-e", "key_u1", "key_u1"),
      PaymentToken("u1", "m1", 300, 3, Start, "TXN-f", "key_x", "key_u1") }

\* initialState of the merchant context (the fields the payment path uses);
\* lastCounter {} is the function with no entry.
initialState ==
    [balance |-> 0, transactions |-> <<>>, pendingSync |-> <<>>, lastCounter |-> <<>>]

\* The keys of the reducer state object.
StateFields == {"merchant", "isLoggedIn", "balance", "keyPair", "transactions",
                "pendingSync", "bleActive", "lastCounter"}

\* state.lastCounter[from] || -1 : an absent entry and the entry 0 both give -1.
LastCounterOr(state, from) ==
    IF from \in DOMAIN state.lastCounter /\ state.lastCounter[from] # 0
    THEN state.lastCounter[from]
    ELSE -1

Verdict(valid, error) == [defined |-> TRUE, valid |-> valid, error |-> error]
Undefined == [defined |-> FALSE, valid |-> FALSE, error |-> ""]

\* Mutant: verifyPaymentToken without the token age check.
verifyPaymentTokenNoExpiry(state, token, t) ==
    IF ~SigVerify(TokenData(token), token.signature, token.publicKey)
        THEN Verdict(FALSE, "Invalid signature")
    ELSE IF token.amount > MaxTxnAmount
        THEN Verdict(FALSE, "Amount exceeds limit")
    ELSE IF token.counter <= LastCounterOr(state, token.from)
        THEN Verdict(FALSE, "Duplicate transaction")
    ELSE Verdict(TRUE, "")

\* verifyPaymentToken(token), evaluated on reducer state `state` at time `t`.
verifyPaymentToken(state, token, t) ==
    IF ~SigVerify(TokenData(token), token.signature, token.publicKey)
        THEN Verdict(FALSE, "Invalid signature")
    ELSE IF token.amount > MaxTxnAmount
        THEN Verdict(FALSE, "Amount exceeds limit")
    ELSE IF token.counter <= LastCounterOr(state, token.from)
        THEN Verdict(FALSE, "Duplicate transaction")
    ELSE IF t - token.timestamp > StaleMs
        THEN Verdict(FALSE, "Token expired")
    ELSE Verdict(TRUE, "")

\* appReducer: ADD_TRANSACTION, ADD_PENDING_SYNC, UPDATE_COUNTER.
ADD_TRANSACTION(state, txn) ==
    [state EXCEPT !.transactions = <<txn>> \o @, !.balance = @ + txn.amount]

ADD_PENDING_SYNC(state, txn) ==
    [state EXCEPT !.pendingSync = Append(@, txn)]

UPDATE_COUNTER(state, userPhone, counter) ==
    [state EXCEPT !.lastCounter =
        [p \in DOMAIN @ \cup {userPhone} |-> IF p = userPhone THEN counter ELSE @[p]]]

\* { ...paymentToken, status: 'received', receivedAt } without receivedAt, which
\* only the transactions list displays.
Received(paymentToken) ==
    [from |-> paymentToken.from, to |-> paymentToken.to, amount |-> paymentToken.amount,
     counter |-> paymentToken.counter, timestamp |-> paymentToken.timestamp,
     txnId |-> paymentToken.txnId, signature |-> paymentToken.signature,
     publicKey |-> paymentToken.publicKey, status |-> "received"]

Result(success, error) == [success |-> success, error |-> error]

\* handlePaymentReceived from its verification on: the answer and the new state.
handlePaymentReceived(state, verification, paymentToken) ==
    IF ~verification.defined THEN
        [result |-> Result(FALSE, "Verification not available"), state |-> state]
    ELSE IF ~verification.valid THEN
        [result |-> Result(FALSE, verification.error), state |-> state]
    ELSE
        [result |-> Result(TRUE, ""),
         state |-> UPDATE_COUNTER(
                     ADD_PENDING_SYNC(ADD_TRANSACTION(state, Received(paymentToken)),
                                      Received(paymentToken)),
                     paymentToken.from, paymentToken.counter)]

\* state.verifyPaymentToken?.(paymentToken): the call is made only if the reducer
\* state object has a verifyPaymentToken field; otherwise the value is undefined.
StateVerify(state, paymentToken, t) ==
    IF "verifyPaymentToken" \in StateFields
    THEN verifyPaymentToken(state, paymentToken, t)
    ELSE Undefined

\* The merchant app with its home screen mounted: the first generateQR() has
\* run, the interval timer is set and startBLEServer() has registered
\* handlePaymentReceived with the BLE service.
\* TransactionsScreen with no sync request in flight.  sent is the batch of
\* the last request, response the answer handleSync got for it, cleared the
\* pendingSync entries its CLEAR_PENDING_SYNC removed.
SyncIdle(syncs) ==
    [pc |-> "idle", sent |-> <<>>, response |-> <<>>, alert |-> "none",
     cleared |-> <<>>, syncs |-> syncs]

InitMerchant ==
    /\ mstate = initialState
    /\ now = Start
    /\ qr = [mounted |-> TRUE, timestamp |-> Start, countdown |-> QrPeriod,
             minted |-> {Start}]
    /\ ble = [isAdvertising |-> TRUE, onPaymentReceived |-> TRUE, responseValue |-> <<>>]
    /\ lastCall = <<>>
    /\ msync = SyncIdle(0)

\* HomeScreen unmounts: clearInterval, BLEService.stopAdvertising().
Unmount ==
    /\ qr.mounted
    /\ qr' = [qr EXCEPT !.mounted = FALSE, !.countdown = 0]
    /\ ble' = [ble EXCEPT !.isAdvertising = FALSE, !.onPaymentReceived = FALSE]
    /\ UNCHANGED <<mstate, now, lastCall>>
    /\ UNCHANGED msync
    /\ UNCHANGED serverVars
    /\ UNCHANGED walletVars
    /\ UNCHANGED authVars

\* Mutant: an interval callback that mints the next descriptor one tick early.
TickEarly ==
    /\ now < Start + MaxTicks * TickMs
    /\ now' = now + TickMs
    /\ qr' = IF ~qr.mounted THEN qr
             ELSE IF qr.countdown <= 2
                  THEN [qr EXCEPT !.timestamp = now', !.countdown = QrPeriod,
                                  !.minted = @ \cup {now'}]
                  ELSE [qr EXCEPT !.countdown = @ - 1]
    /\ UNCHANGED <<mstate, ble, lastCall>>
    /\ UNCHANGED msync
    /\ UNCHANGED serverVars
    /\ UNCHANGED walletVars
    /\ UNCHANGED authVars

\* One second passes; while the home screen is mounted its interval callback runs:
\* at countdown <= 1 it calls generateQR() and restarts the countdown.
Tick ==
    /\ now < Start + MaxTicks * TickMs
    /\ now' = now + TickMs
    /\ qr' = IF ~qr.mounted THEN qr
             ELSE IF qr.countdown <= 1
                  THEN [qr EXCEPT !.timestamp = now', !.countdown = QrPeriod,
                                  !.minted = @ \cup {now'}]
                  ELSE [qr EXCEPT !.countdown = @ - 1]
    /\ UNCHANGED <<mstate, ble, lastCall>>
    /\ UNCHANGED msync
    /\ UNCHANGED serverVars
    /\ UNCHANGED walletVars
    /\ UNCHANGED authVars

\* The descriptor a payer started the payment from: one the merchant minted,
\* or none (0).
Sessions == qr.minted \cup {0}

Call(via, token, session, verification, result) ==
    <<[via |-> via, token |-> token, session |-> session, qrAtCall |-> qr.timestamp,
       at |-> now, verification |-> verification, result |-> result]>>

\* BLEService.handlePaymentWrite(value) for a value that decodes to `token`:
\* the registered callback is HomeScreen.handlePaymentReceived.
HandlePaymentWrite(token, session) ==
    /\ Len(mstate.transactions) < MaxAccepted
    /\ IF ble.onPaymentReceived
       THEN LET verification == StateVerify(mstate, token, now)
                out == handlePaymentReceived(mstate, verification, token)
            IN  /\ mstate' = out.state
                /\ ble' = [ble EXCEPT !.responseValue = <<out.result>>]
                /\ lastCall' = Call("ble", token, session, verification, out.result)
       ELSE /\ lastCall' = Call("ble", token, session, Undefined, Result(FALSE, "No handler"))
            /\ UNCHANGED <<mstate, ble>>
    /\ UNCHANGED <<now, qr>>
    /\ UNCHANGED msync
    /\ UNCHANGED serverVars
    /\ UNCHANGED walletVars
    /\ UNCHANGED authVars

\* The functions the provider exports in the context value, called in the order
\* handlePaymentReceived calls them: verifyPaymentToken taken from the context
\* value (where the provider puts it), then addTransaction, addPendingSync and
\* updateCounter for a valid token.
ContextPayment(token, session) ==
    /\ Len(mstate.transactions) < MaxAccepted
    /\ LET verification == verifyPaymentToken(mstate, token, now)
           out == handlePaymentReceived(mstate, verification, token)
       IN  /\ mstate' = out.state
           /\ lastCall' = Call("context", token, session, verification, out.result)
    /\ UNCHANGED <<now, qr, ble>>
    /\ UNCHANGED msync
    /\ UNCHANGED serverVars
    /\ UNCHANGED walletVars
    /\ UNCHANGED authVars

\* appReducer: CLEAR_PENDING_SYNC.
CLEAR_PENDING_SYNC(state) == [state EXCEPT !.pendingSync = <<>>]

\* The per-element statuses of POST /api/sync.
SyncStatuses == {"success", "duplicate", "amount_exceeded", "error"}

\* What `await ApiService.syncTransactions(...)` gives handleSync for a batch of
\* n tokens: the body of a 200 answer of sendResponse (success true, one result
\* per element), the body of a refusal (an error field, no success field), or
\* a thrown 'Network error'.
SyncAnswer(success, thrown, results) ==
    [success |-> success, thrown |-> thrown, results |-> results,
     processed |-> Cardinality({ i \in DOMAIN results : results[i] = "success" })]

SyncAnswers(n) ==
    { SyncAnswer(TRUE, FALSE, results) : results \in [1..n -> SyncStatuses] }
        \cup { SyncAnswer(FALSE, FALSE, <<>>), SyncAnswer(FALSE, TRUE, <<>>) }

\* handleSync up to `await ApiService.syncTransactions(state.pendingSync)`.
HandleSync ==
    /\ msync.pc = "idle"
    /\ msync.syncs < MaxSyncs
    /\ mstate.pendingSync # <<>>
    /\ msync' = [SyncIdle(msync.syncs + 1) EXCEPT !.pc = "await",
                                                  !.sent = mstate.pendingSync]
    /\ UNCHANGED <<mstate, now, qr, ble, lastCall>>
    /\ UNCHANGED serverVars
    /\ UNCHANGED walletVars
    /\ UNCHANGED authVars

\* handleSync from the settled await to its end.
SyncAnswered(response) ==
    /\ msync.pc = "await"
    /\ response \in SyncAnswers(Len(msync.sent))
    /\ IF response.thrown
       THEN /\ msync' = [msync EXCEPT !.pc = "idle", !.response = <<response>>,
                                      !.alert = "Network error"]
            /\ UNCHANGED mstate
       ELSE IF response.success
       THEN /\ mstate' = CLEAR_PENDING_SYNC(mstate)
            /\ msync' = [msync EXCEPT !.pc = "idle", !.response = <<response>>,
                                      !.alert = "Synced", !.cleared = mstate.pendingSync]
       ELSE /\ msync' = [msync EXCEPT !.pc = "idle", !.response = <<response>>,
                                      !.alert = "Sync failed"]
            /\ UNCHANGED mstate
    /\ UNCHANGED <<now, qr, ble, lastCall>>
    /\ UNCHANGED serverVars
    /\ UNCHANGED walletVars
    /\ UNCHANGED authVars

(***************************************************************************)
(*                              WALLET APP                                 *)
(***************************************************************************)
MaxAttempts == 2       \* presses of the Pay button in a run

\* initialState of the wallet context.  user holds the phone of the user object
\* and keyPair the key of the stored pair.
walletInitialState ==
    [user |-> Null, isLoggedIn |-> FALSE, balance |-> 0, offlineBalance |-> 0,
     keyPair |-> Null, transactions |-> <<>>, pendingSync |-> <<>>, counter |-> 0]

\* appReducer of the wallet context.
walletReducer(state, type, payload) ==
    CASE type = "SET_USER" ->
            [state EXCEPT !.user = payload, !.isLoggedIn = TRUE]
      [] type = "SET_BALANCE" ->
            [state EXCEPT !.balance = payload.balance,
                          !.offlineBalance = payload.offlineBalance]
      [] type = "SET_KEYPAIR" ->
            [state EXCEPT !.keyPair = payload]
      [] type = "ADD_TRANSACTION" ->
            [state EXCEPT !.transactions = <<payload>> \o @,
                          !.offlineBalance = Minus(@, payload.amount)]
      [] type = "ADD_PENDING_SYNC" ->
            [state EXCEPT !.pendingSync = Append(@, payload)]
      [] type = "CLEAR_PENDING_SYNC" ->
            [state EXCEPT !.pendingSync = <<>>]
      [] type = "INCREMENT_COUNTER" ->
            [state EXCEPT !.counter = @ + 1]
      [] type = "LOGOUT" -> walletInitialState
      [] OTHER -> state

\* null, as signPaymentToken returns it: spreading it gives no field, so amount
\* is undefined where a transaction built from it is used in arithmetic.
NullToken ==
    [from |-> Null, to |-> Null, amount |-> NaN, counter |-> -1, timestamp |-> 0,
     txnId |-> Null, signature |-> Sign(Null, <<>>), publicKey |-> Null]

\* `TXN-${Date.now()}-${random}`: an id no earlier call has produced.
NextTxnId == "TXN-" \o ToString(Len(signed) + 1)

\* The value signPaymentToken(merchantId, amount) returns when it runs with the
\* reducer state `state` of the render that created it.
signPaymentToken(state, merchantId, amount) ==
    IF state.keyPair = Null THEN NullToken
    ELSE PaymentToken(state.user, merchantId, amount, state.counter, now, NextTxnId,
                      state.keyPair, state.keyPair)

\* The effect of a signPaymentToken call that returned `token` on the reducer
\* state and on the record of returned tokens: dispatch INCREMENT_COUNTER.
Dispatched(state, token) ==
    IF token = NullToken THEN state ELSE walletReducer(state, "INCREMENT_COUNTER", Null)

Returned(token) == IF token = NullToken THEN signed ELSE Append(signed, token)

\* { ...token, merchantName, status }
WalletTxn(token, status) ==
    [txnId |-> token.txnId, to |-> token.to, amount |-> token.amount,
     counter |-> token.counter, status |-> status]

(***************************************************************************)
(* Error messages, and the table of error.message.includes('BLE') ||       *)
(* error.message.includes('connect') over them.                            *)
(***************************************************************************)
ErrInit         == "BLE initialization failed: Bluetooth is off. Please turn it on."
ErrScanTimeout  == "Could not find merchant. Please try again."
ErrConnect      == "BLE connection failed"
ErrSign         == "Failed to sign token"
ErrNotConnected == "Not connected to merchant"
ErrPayment      == "Payment failed"

\* Messages of the errors the BLE library raises.
LibMessages == {"Device was disconnected", "Operation timed out"}

\* Message of the error raised when the acknowledgment cannot be decoded.
ParseMessage == "Unexpected end of JSON input"

ErrSend(message) == "Payment transmission failed: " \o message

MentionsBLEOrConnect(message) ==
    message \in {ErrInit, ErrConnect, ErrNotConnected,
                 "Device was disconnected", ErrSend("Device was disconnected")}

\* The acknowledgments a merchant writes to the response characteristic.
Responses ==
    { Result(TRUE, ""), Result(FALSE, "Verification not available"),
      Result(FALSE, "Invalid signature"), Result(FALSE, "") }

\* The amounts typed into the payment screen and the balances the server reports.
PayAmounts == {NaN, 0, 300, 600}
BalancePayloads == { [balance |-> 1000, offlineBalance |-> 0],
                     [balance |-> 500, offlineBalance |-> 500] }

\* PaymentScreen with status 'idle', before Pay is pressed.
IdlePay(attempts) ==
    [pc |-> "idle", status |-> "idle", errorMessage |-> "", alert |-> "none",
     offered |-> FALSE, failure |-> "", closure |-> walletInitialState, amount |-> 0,
     token |-> <<>>, attempts |-> attempts]

\* ScanQRScreen as mounted: scanning, no alert shown, nothing navigated to.
\* last holds the code given to the last onScan call and the time of the call.
ScanIdle ==
    [scanning |-> TRUE, alert |-> "none", qrData |-> <<>>, route |-> <<>>, last |-> <<>>]

InitWallet ==
    /\ wstate = walletInitialState
    /\ wkeys = "pending"
    /\ wble = [device |-> Null, isConnected |-> FALSE]
    /\ pay = IdlePay(0)
    /\ signed = <<>>
    /\ acked = {}
    /\ scan = ScanIdle

\* loadOrCreateKeyPair(), started once when the provider mounts.
LoadKeyPair ==
    /\ wkeys = "pending"
    /\ wkeys' = "done"
    /\ wstate' = walletReducer(wstate, "SET_KEYPAIR", "key_u1")
    /\ UNCHANGED <<wble, pay, signed, acked>>
    /\ UNCHANGED scan
    /\ UNCHANGED serverVars
    /\ UNCHANGED merchantVars
    /\ UNCHANGED authVars

SetUser(phone) ==
    /\ ~wstate.isLoggedIn
    /\ wstate' = walletReducer(wstate, "SET_USER", phone)
    /\ UNCHANGED <<wkeys, wble, pay, signed, acked>>
    /\ UNCHANGED scan
    /\ UNCHANGED serverVars
    /\ UNCHANGED merchantVars
    /\ UNCHANGED authVars

SetBalance(payload) ==
    /\ wstate.isLoggedIn
    /\ wstate' = walletReducer(wstate, "SET_BALANCE", payload)
    /\ UNCHANGED <<wkeys, wble, pay, signed, acked>>
    /\ UNCHANGED scan
    /\ UNCHANGED serverVars
    /\ UNCHANGED merchantVars
    /\ UNCHANGED authVars

ClearPendingSync ==
    /\ wstate.pendingSync # <<>>
    /\ wstate' = walletReducer(wstate, "CLEAR_PENDING_SYNC", Null)
    /\ UNCHANGED <<wkeys, wble, pay, signed, acked>>
    /\ UNCHANGED scan
    /\ UNCHANGED serverVars
    /\ UNCHANGED merchantVars
    /\ UNCHANGED authVars

Logout ==
    /\ wstate.isLoggedIn
    /\ wstate' = walletReducer(wstate, "LOGOUT", Null)
    /\ UNCHANGED <<wkeys, wble, pay, signed, acked>>
    /\ UNCHANGED scan
    /\ UNCHANGED serverVars
    /\ UNCHANGED merchantVars
    /\ UNCHANGED authVars

\* handlePay up to `await BLEService.connect(bleId)`.  The handler, and the
\* saveOfflinePayment its alert calls, see the context of the render in which Pay
\* was pressed (closure).
PressPay(amount) ==
    /\ pay.pc = "idle"
    /\ wstate.isLoggedIn
    /\ pay.attempts < MaxAttempts
    /\ pay' = IF amount = NaN \/ amount = 0 \/ amount <= 0 THEN
                  [pay EXCEPT !.alert = "Invalid Amount", !.amount = amount,
                              !.attempts = @ + 1]
              ELSE IF Greater(amount, MaxTxnAmount) THEN
                  [pay EXCEPT !.alert = "Limit Exceeded", !.amount = amount,
                              !.attempts = @ + 1]
              ELSE IF Greater(amount, wstate.offlineBalance) THEN
                  [pay EXCEPT !.alert = "Insufficient Balance", !.amount = amount,
                              !.attempts = @ + 1]
              ELSE
                  [pay EXCEPT !.pc = "connect", !.status = "connecting", !.alert = "none",
                              !.closure = wstate, !.amount = amount, !.attempts = @ + 1]
    /\ UNCHANGED <<wstate, wkeys, wble, signed, acked>>
    /\ UNCHANGED scan
    /\ UNCHANGED serverVars
    /\ UNCHANGED merchantVars
    /\ UNCHANGED authVars

\* Mutant: a catch block that reports the payment as successful.
CatchAsSuccess(p, message, failure) ==
    [p EXCEPT !.pc = "done", !.status = "success"]

\* The catch block of handlePay.
Catch(p, message, failure) ==
    [p EXCEPT !.pc = "done", !.status = "error", !.errorMessage = message,
              !.failure = failure,
              !.alert = IF MentionsBLEOrConnect(message) THEN "Connection Failed" ELSE "none",
              !.offered = MentionsBLEOrConnect(message)]

\* BLEService.disconnect()
disconnect(service) ==
    IF service.device # Null THEN [device |-> Null, isConnected |-> FALSE] ELSE service

ConnectOutcomes == {"init", "scan_timeout", "scan_error", "connect", "discover", "connected"}

\* BLEService.connect(bleId) settles and handlePay continues to the call of
\* BLEService.sendPayment(token).
Connect(outcome, message) ==
    /\ pay.pc = "connect"
    /\ IF outcome = "connected"
       THEN LET token == signPaymentToken(pay.closure, "m1", pay.amount) IN
            /\ wble' = [device |-> "device", isConnected |-> TRUE]
            /\ wstate' = Dispatched(wstate, token)
            /\ signed' = Returned(token)
            /\ pay' = IF token = NullToken
                      THEN Catch([pay EXCEPT !.status = "sending"], ErrSign, "sign")
                      ELSE [pay EXCEPT !.pc = "send", !.status = "sending",
                                       !.token = <<token>>]
       ELSE /\ wble' = IF outcome = "discover"
                       THEN [wble EXCEPT !.device = "device"]
                       ELSE wble
            /\ pay' = CASE outcome = "init" -> Catch(pay, ErrInit, outcome)
                        [] outcome = "scan_timeout" -> Catch(pay, ErrScanTimeout, outcome)
                        [] outcome = "scan_error" -> Catch(pay, message, outcome)
                        [] OTHER -> Catch(pay, ErrConnect, outcome)
            /\ UNCHANGED <<wstate, signed>>
    /\ UNCHANGED <<wkeys, acked>>
    /\ UNCHANGED scan
    /\ UNCHANGED serverVars
    /\ UNCHANGED merchantVars
    /\ UNCHANGED authVars

\* The awaited operations of connect and sendPayment that no timer of the code
\* bounds: initialize() while the adapter reports a state other than PoweredOn
\* and PoweredOff, discoverAllServicesAndCharacteristics(), the characteristic
\* write and the characteristic read.
UntimedOperations == {"initialize", "discover", "write", "read"}

\* The operation handlePay is awaiting never settles: the peer or the adapter
\* gives no answer, and handlePay stays at its await.
NeverSettles(operation) ==
    /\ \/ pay.pc = "connect" /\ operation \in {"initialize", "discover"}
       \/ /\ pay.pc = "send" /\ operation \in {"write", "read"}
          /\ wble.isConnected /\ wble.device # Null
    /\ pay' = [pay EXCEPT !.pc = "await", !.failure = operation]
    /\ wble' = IF operation = "discover" THEN [wble EXCEPT !.device = "device"] ELSE wble
    /\ UNCHANGED <<wstate, wkeys, signed, acked>>
    /\ UNCHANGED scan
    /\ UNCHANGED serverVars
    /\ UNCHANGED merchantVars
    /\ UNCHANGED authVars

SendOutcomes == {"write", "read", "decode", "ack"}

\* BLEService.sendPayment(token) settles and handlePay runs to its end.
Send(outcome, message, response) ==
    /\ pay.pc = "send"
    /\ IF ~wble.isConnected \/ wble.device = Null
       THEN /\ pay' = Catch(pay, ErrNotConnected, "not_connected")
            /\ UNCHANGED <<wstate, wble, acked>>
       ELSE /\ wble' = disconnect(wble)
            /\ IF outcome = "ack" /\ response.success
               THEN /\ acked' = acked \cup {pay.token[1].txnId}
                    /\ wstate' = walletReducer(
                                   walletReducer(wstate, "ADD_TRANSACTION",
                                                 WalletTxn(pay.token[1], "completed")),
                                   "ADD_PENDING_SYNC", pay.token[1])
                    /\ pay' = [pay EXCEPT !.pc = "done", !.status = "success"]
               ELSE /\ pay' = CASE outcome = "ack" ->
                                     Catch(pay, IF response.error = "" THEN ErrPayment
                                                ELSE response.error, "rejected")
                                [] outcome = "decode" ->
                                     Catch(pay, ErrSend(ParseMessage), outcome)
                                [] OTHER -> Catch(pay, ErrSend(message), outcome)
                    /\ UNCHANGED <<wstate, acked>>
    /\ UNCHANGED <<wkeys, signed>>
    /\ UNCHANGED scan
    /\ UNCHANGED serverVars
    /\ UNCHANGED merchantVars
    /\ UNCHANGED authVars

\* 'Save Offline' of the alert: saveOfflinePayment(payAmount).
SaveOffline ==
    /\ pay.alert = "Connection Failed"
    /\ LET token == signPaymentToken(pay.closure, "m1", pay.amount) IN
       /\ signed' = Returned(token)
       /\ wstate' = walletReducer(
                      walletReducer(Dispatched(wstate, token), "ADD_TRANSACTION",
                                    WalletTxn(token, "pending")),
                      "ADD_PENDING_SYNC", token)
       /\ pay' = [pay EXCEPT !.alert = "Saved"]
    /\ UNCHANGED <<wkeys, wble, acked>>
    /\ UNCHANGED scan
    /\ UNCHANGED serverVars
    /\ UNCHANGED merchantVars
    /\ UNCHANGED authVars

\* 'Cancel' of the alert.
CancelAlert ==
    /\ pay.alert = "Connection Failed"
    /\ pay' = [pay EXCEPT !.alert = "none"]
    /\ UNCHANGED <<wstate, wkeys, wble, signed, acked>>
    /\ UNCHANGED scan
    /\ UNCHANGED serverVars
    /\ UNCHANGED merchantVars
    /\ UNCHANGED authVars

\* 'Try Again' (setStatus('idle')), or the payment screen opened again after a
\* finished payment.
Reset ==
    /\ pay.pc = "done"
    /\ pay.alert # "Connection Failed"
    /\ pay' = IdlePay(pay.attempts)
    /\ UNCHANGED <<wstate, wkeys, wble, signed, acked>>
    /\ UNCHANGED scan
    /\ UNCHANGED serverVars
    /\ UNCHANGED merchantVars
    /\ UNCHANGED authVars

\* The age above which onScan turns a code down.
ScanMaxAge == 18000

\* What the camera reads: e.data is JSON text or not; the fields of the parsed
\* object, Null or NaN for a field the object does not have.
Scanned(json, merchantId, merchantName, bleId, timestamp) ==
    [json |-> json, merchantId |-> merchantId, merchantName |-> merchantName,
     bleId |-> bleId, timestamp |-> timestamp]

\* The code generateQR() puts on display at time t.
generateQR(t) == Scanned(TRUE, "m1", "Demo Merchant", "TOKPAY-m1", t)

\* The codes a payer can point the camera at: those the merchant has shown so
\* far (a photograph keeps an old one), the current one with a field missing,
\* and a code that is not JSON.
Scannable ==
    { generateQR(t) : t \in qr.minted }
    \cup { [generateQR(qr.timestamp) EXCEPT !.merchantId = Null],
           [generateQR(qr.timestamp) EXCEPT !.bleId = Null],
           [generateQR(qr.timestamp) EXCEPT !.timestamp = NaN],
           Scanned(FALSE, Null, Null, Null, NaN) }

\* !v for a text field and for a numeric field of the parsed object.
FalsyText(v)   == v = Null
FalsyNumber(v) == v = NaN \/ v = 0

\* JSON.parse throws, or a required field is missing: control goes to the catch.
ScanThrows(e) ==
    ~e.json \/ FalsyText(e.merchantId) \/ FalsyText(e.bleId) \/ FalsyNumber(e.timestamp)

\* The params of navigation.navigate('Payment', ...); the merchant's code has
\* no amount.
PaymentParams(data) ==
    [merchantId |-> data.merchantId, merchantName |-> data.merchantName,
     bleId |-> data.bleId, amount |-> Null]

\* Mutant: onScan without the age check.
OnScanNoExpiry(e) ==
    /\ scan.scanning
    /\ scan' = IF ScanThrows(e) THEN
                   [scan EXCEPT !.scanning = TRUE, !.alert = "Invalid QR",
                                !.last = <<[data |-> e, at |-> now]>>]
               ELSE
                   [scan EXCEPT !.scanning = FALSE, !.qrData = <<e>>,
                                !.route = <<PaymentParams(e)>>,
                                !.last = <<[data |-> e, at |-> now]>>]
    /\ UNCHANGED <<wstate, wkeys, wble, pay, signed, acked>>
    /\ UNCHANGED serverVars
    /\ UNCHANGED merchantVars
    /\ UNCHANGED authVars

\* ScanQRScreen.onScan(e), from setScanning(false) to the navigation or the alert.
OnScan(e) ==
    /\ scan.scanning
    /\ scan' = IF ScanThrows(e) THEN
                   [scan EXCEPT !.scanning = TRUE, !.alert = "Invalid QR",
                                !.last = <<[data |-> e, at |-> now]>>]
               ELSE IF Greater(Minus(now, e.timestamp), ScanMaxAge) THEN
                   [scan EXCEPT !.scanning = TRUE, !.alert = "QR Expired",
                                !.last = <<[data |-> e, at |-> now]>>]
               ELSE
                   [scan EXCEPT !.scanning = FALSE, !.qrData = <<e>>,
                                !.route = <<PaymentParams(e)>>,
                                !.last = <<[data |-> e, at |-> now]>>]
    /\ UNCHANGED <<wstate, wkeys, wble, pay, signed, acked>>
    /\ UNCHANGED serverVars
    /\ UNCHANGED merchantVars
    /\ UNCHANGED authVars

\* The payer comes back to the scan screen, which mounts afresh.
ScanAgain ==
    /\ ~scan.scanning
    /\ scan' = ScanIdle
    /\ UNCHANGED <<wstate, wkeys, wble, pay, signed, acked>>
    /\ UNCHANGED serverVars
    /\ UNCHANGED merchantVars
    /\ UNCHANGED authVars

(***************************************************************************)
(*                           SPECIFICATIONS                                *)
(***************************************************************************)
Init == InitServer /\ InitAuth({0}) /\ InitMerchant /\ InitWallet

\* The callbacks of POST /api/sync, whatever requests are in flight.
SyncSteps ==
    \/ \E r \in 1..Len(reqs) : \E i \in 1..Len(reqs[r].batch) : SyncGet(r, i)
    \/ \E r \in 1..Len(reqs) : \E i \in 1..Len(reqs[r].batch) : SyncInsert(r, i)
    \/ \E s \in stmts : RunUpdate(s)

\* Spec: the backend under POST /api/sync requests.
NextSync ==
    \/ \E batch \in Batches(SyncTokens, MaxElements) : SyncRequest(batch, MaxElements)
    \/ SyncSteps

Next == NextSync

Spec == Init /\ [][Next]_vars

\* SpecLoad: the backend under POST /api/load-balance and POST /api/sync requests.
NextLoad ==
    \/ \E phone \in Phones : \E amount \in LoadAmounts : LoadRequest(phone, amount)
    \/ \E l \in 1..Len(loads) : LoadGet(l)
    \/ \E l \in 1..Len(loads) : LoadRun(l)
    \/ \E batch \in Batches(LoadSyncTokens, MaxLoadElements) :
            SyncRequest(batch, MaxLoadElements)
    \/ SyncSteps

SpecLoad == Init /\ [][NextLoad]_vars

NextMerchant ==
    \/ Unmount
    \/ Tick
    \/ \E token \in PaymentTokens : \E session \in Sessions : HandlePaymentWrite(token, session)
    \/ \E token \in PaymentTokens : \E session \in Sessions : ContextPayment(token, session)

SpecMerchant == Init /\ [][NextMerchant]_vars

\* SpecMerchantSync: the merchant's reducer under payments and under the Sync
\* button of the transactions screen.
SyncPaymentTokens == { token \in PaymentTokens : token.txnId \in {"TXN-a", "TXN-b"} }

NextMerchantSync ==
    \/ \E token \in SyncPaymentTokens : ContextPayment(token, 0)
    \/ HandleSync
    \/ \E response \in SyncAnswers(Len(msync.sent)) : SyncAnswered(response)

SpecMerchantSync == Init /\ [][NextMerchantSync]_vars

\* SpecPolicy: the two places that enforce the amount policy side by side, the
\* merchant's verifier and POST /api/sync, on tokens that differ in amount.
PolicySyncTokens == { txn \in SyncTokens : txn.txnId \in {"t1", "t3", "t4"} }
PolicyPaymentTokens == { token \in PaymentTokens : token.txnId \in {"TXN-b", "TXN-c", "TXN-d"} }

NextPolicy ==
    \/ \E batch \in Batches(PolicySyncTokens, MaxPolicyElements) :
            SyncRequest(batch, MaxPolicyElements)
    \/ SyncSteps
    \/ \E token \in PolicyPaymentTokens : \E session \in Sessions :
            ContextPayment(token, session)

SpecPolicy == Init /\ [][NextPolicy]_vars

\* SpecFault: POST /api/sync where a queued UPDATE may fail and a payer may be
\* unregistered.
NextFault ==
    \/ \E batch \in Batches(FaultSyncTokens, MaxElements) : SyncRequest(batch, MaxElements)
    \/ SyncSteps
    \/ \E s \in stmts : UpdateFails(s)

SpecFault == Init /\ [][NextFault]_vars

\* SpecMalformed: POST /api/sync on batches that may hold malformed entries.
NextMalformed ==
    \/ \E batch \in Batches(MalformedSyncTokens, MaxElements) :
            SyncRequest(batch, MaxElements)
    \/ SyncSteps

SpecMalformed == Init /\ [][NextMalformed]_vars

\* SpecWallet: the wallet app, with the BLE transport and the merchant's answers
\* as its environment.
NextWallet ==
    \/ LoadKeyPair
    \/ \E phone \in Phones : SetUser(phone)
    \/ \E payload \in BalancePayloads : SetBalance(payload)
    \/ ClearPendingSync
    \/ Logout
    \/ \E amount \in PayAmounts : PressPay(amount)
    \/ \E outcome \in ConnectOutcomes : \E message \in LibMessages : Connect(outcome, message)
    \/ \E outcome \in SendOutcomes : \E message \in LibMessages : \E response \in Responses :
            Send(outcome, message, response)
    \/ SaveOffline
    \/ CancelAlert
    \/ Reset

SpecWallet == Init /\ [][NextWallet]_vars

\* SpecExchange: the wallet app with a transport that may also never answer.
\* A promise that settles has its continuation run by the event loop, hence
\* the weak fairness of the two continuations of handlePay.
NextExchange ==
    \/ NextWallet
    \/ \E operation \in UntimedOperations : NeverSettles(operation)

SpecExchange ==
    /\ Init
    /\ [][NextExchange]_vars
    /\ WF_vars(\E outcome \in ConnectOutcomes : \E message \in LibMessages :
                    Connect(outcome, message))
    /\ WF_vars(\E outcome \in SendOutcomes : \E message \in LibMessages :
                    \E response \in Responses : Send(outcome, message, response))

\* The fields of a payment token other than the signature.
TokenFields == {"from", "to", "amount", "counter", "timestamp", "txnId", "publicKey"}

\* The token with one field changed on its way to the merchant.
Tamper(token, field) ==
    CASE field = "from"      -> [token EXCEPT !.from = "u2"]
      [] field = "to"        -> [token EXCEPT !.to = "m2"]
      [] field = "amount"    -> [token EXCEPT !.amount = @ + 1]
      [] field = "counter"   -> [token EXCEPT !.counter = @ + 1]
      [] field = "timestamp" -> [token EXCEPT !.timestamp = @ + 1]
      [] field = "txnId"     -> [token EXCEPT !.txnId = "TXN-x"]
      [] field = "publicKey" -> [token EXCEPT !.publicKey = "key_x"]

\* What can reach the merchant: the tokens signPaymentToken has returned, as
\* they are or with one field changed.
Presented ==
    { signed[i] : i \in 1..Len(signed) }
    \cup { Tamper(signed[i], field) : i \in 1..Len(signed), field \in TokenFields }

\* SpecIntegrity: the wallet signs tokens and the merchant's verifier is given
\* them, untouched or changed in one field.
NextIntegrity ==
    \/ LoadKeyPair
    \/ \E phone \in Phones : SetUser(phone)
    \/ \E payload \in BalancePayloads : SetBalance(payload)
    \/ \E amount \in PayAmounts : PressPay(amount)
    \/ \E outcome \in ConnectOutcomes : \E message \in LibMessages : Connect(outcome, message)
    \/ \E outcome \in SendOutcomes : \E message \in LibMessages : \E response \in Responses :
            Send(outcome, message, response)
    \/ SaveOffline
    \/ CancelAlert
    \/ Reset
    \/ \E token \in Presented : ContextPayment(token, 0)

SpecIntegrity == Init /\ [][NextIntegrity]_vars

\* SpecScan: the scan screen of the wallet in front of the merchant's home
\* screen, whose timer rotates the code.
NextScan ==
    \/ Tick
    \/ \E e \in Scannable : OnScan(e)
    \/ ScanAgain

SpecScan == Init /\ [][NextScan]_vars

\* SpecLockout: the backend under POST /api/auth/login requests for a user
\* account, right and wrong passwords, as time passes.
LoginInputs ==
    {<<"", Password>>, <<"u1", "">>, <<"u0", Password>>, <<"u1", Password>>,
     <<"u1", "bad">>}

NextLockout ==
    \/ \E c \in Connections, input \in LoginInputs :
            LoginRequest(c, "users", input[1], input[2], MaxLockoutReqs)
    \/ \E c \in Connections : LoginGet(c)
    \/ \E c \in Connections : LoginCompare(c)
    \/ \E s \in authstmts : RunAuthStatement(s)
    \/ AuthTick

InitLockout ==
    InitServer /\ InitAuth(InitialAttempts) /\ InitMerchant /\ InitWallet

SpecLockout == InitLockout /\ [][NextLockout]_vars

\* SpecSession: the backend under logins with the right password, refreshes
\* and logouts of a user and of a merchant.
NextSession ==
    \/ \E c \in Connections, table \in AuthTables :
            \E phone \in Registered[table] :
                LoginRequest(c, table, phone, Password, MaxSessionReqs)
    \/ \E c \in Connections : LoginGet(c)
    \/ \E c \in Connections : LoginCompare(c)
    \/ \E c \in Connections :
            \E token \in authlog.refresh \cup {NoToken, Forged} :
                RefreshRequest(c, token, MaxSessionReqs)
    \/ \E c \in Connections : RefreshGet(c)
    \/ \E c \in Connections :
            \E token \in authlog.access \cup {NoToken, Forged} :
                LogoutRequest(c, token, MaxSessionReqs)
    \/ \E c \in Connections : LogoutDelete(c)
    \/ \E s \in authstmts : RunAuthStatement(s)

SpecSession == Init /\ [][NextSession]_vars

(***************************************************************************)
(*                    PROPERTIES OF POST /api/sync                         *)
(***************************************************************************)
TxnIds == { txn.txnId : txn \in SyncTokens }

Elements == UNION { { <<r, i>> : i \in 1..Len(reqs[r].batch) } : r \in 1..Len(reqs) }

ElementTxn(e) == reqs[e[1]].batch[e[2]]
ElementOutcome(e) == reqs[e[1]].outcome[e[2]]

\* The elements answered 'success' for a token id.
Completed(txnId) ==
    { e \in Elements : ElementTxn(e).txnId = txnId /\ ElementOutcome(e) = "success" }

\* The UPDATE statements POST /api/sync has issued (queued or run) for a token id.
Issued(op, txnId) == { s \in stmts \cup applied : s.op = op /\ s.txnId = txnId }

RECURSIVE SumAmounts(_)
SumAmounts(S) == IF S = {} THEN 0
                 ELSE LET s == CHOOSE x \in S : TRUE
                      IN  s.amount + SumAmounts(S \ {s})

\* C1.  Idempotent reconciliation across batches: once a batch that completed a
\* token id has been answered, every later batch that carries the same token id
\* gets 'duplicate' for it; a token id is completed at most once, and the payer's
\* offline_balance and the merchant's balance are changed by it exactly once:
\* one debit and one credit are issued per completed token id, none otherwise,
\* and the balances are the sums of the statements that have run.
IdempotentAcrossBatches ==
    /\ \A e \in Elements : \A r1 \in reqs[e[1]].after :
           /\ ElementOutcome(e) # ""
           /\ \E d \in Completed(ElementTxn(e).txnId) : d[1] = r1
           => ElementOutcome(e) = "duplicate"
    /\ \A t \in TxnIds :
           /\ Cardinality(Completed(t)) <= 1
           /\ Cardinality(Issued("debit", t)) = Cardinality(Completed(t))
           /\ Cardinality(Issued("credit", t)) = Cardinality(Completed(t))
    /\ \A p \in Phones :
           users[p].offline_balance =
               0 - SumAmounts({ s \in applied : s.op = "debit" /\ s.key = p })
    /\ \A m \in MerchantIds :
           merchants[m] = SumAmounts({ s \in applied : s.op = "credit" /\ s.key = m })

\* C1 witness: a token id completed by an answered batch was submitted again in a
\* later batch and answered 'duplicate', and its debit and credit have run.
ResubmittedAfterAnswer ==
    \E e \in Elements : \E r1 \in reqs[e[1]].after :
        /\ ElementOutcome(e) = "duplicate"
        /\ \E d \in Completed(ElementTxn(e).txnId) : d[1] = r1
        /\ \E s \in applied : s.op = "debit" /\ s.txnId = ElementTxn(e).txnId
        /\ \E s \in applied : s.op = "credit" /\ s.txnId = ElementTxn(e).txnId

\* C2.  Idempotency under interleaving: in every interleaving of the database
\* callbacks, also when two existence lookups for one txnId both run before
\* either INSERT, the transactions table holds at most one row per txn_id and
\* at most one debit and one credit are issued for that txnId.
AtMostOnceUnderInterleaving ==
    \A t \in TxnIds :
        /\ Cardinality(Existing(t)) <= 1
        /\ Cardinality(Issued("debit", t)) <= 1
        /\ Cardinality(Issued("credit", t)) <= 1
        /\ Cardinality(Issued("debit", t)) = Cardinality(Existing(t))

\* C2 witness: two elements with one txnId both passed the existence lookup; the
\* INSERT of one succeeded and the INSERT of the other hit the PRIMARY KEY.
BothLookupsBeforeInsert ==
    \E e \in Elements : \E f \in Elements :
        /\ e # f
        /\ ElementTxn(e).txnId = ElementTxn(f).txnId
        /\ ElementOutcome(e) = "success"
        /\ ElementOutcome(f) = "error"

\* C4.  Server-side counter invariant: a token is never completed when a token
\* of the same payer with an equal or higher counter was completed before it.
CounterOrderAtSync ==
    \A j \in 1..Len(transactions) : \A k \in 1..Len(transactions) :
        j < k /\ transactions[j].from_phone = transactions[k].from_phone
        => transactions[j].counter < transactions[k].counter

\* C5.  Server-side signature check: every completed token carries a signature
\* that verifies against the public key registered for its payer.
SignatureCheckedAtSync ==
    \A k \in 1..Len(transactions) :
        SigVerify(SyncSigned(transactions[k].txn_id, transactions[k].from_phone,
                             transactions[k].to_merchant, transactions[k].amount,
                             transactions[k].counter),
                  transactions[k].signature, PublicKeyOf(transactions[k].from_phone))

(***************************************************************************)
(*                    PROPERTIES OF THE AMOUNT POLICY                      *)
(***************************************************************************)
\* C6.  Amount cap: a token whose amount is above 500 is never accepted:
\* verifyPaymentToken returns invalid for it and the merchant records nothing,
\* and POST /api/sync answers it with a failure status, inserts no row for it and
\* issues no balance update for it.
AmountCapEnforced ==
    /\ lastCall # <<>> /\ lastCall[1].token.amount > MaxTxnAmount
           => ~lastCall[1].verification.valid /\ ~lastCall[1].result.success
    /\ \A k \in 1..Len(mstate.transactions) : mstate.transactions[k].amount <= MaxTxnAmount
    /\ \A k \in 1..Len(mstate.pendingSync) : mstate.pendingSync[k].amount <= MaxTxnAmount
    /\ \A e \in Elements :
           ElementTxn(e).amount > MaxTxnAmount /\ ElementOutcome(e) # ""
           => ElementOutcome(e) \in {"amount_exceeded", "duplicate"}
    /\ \A k \in 1..Len(transactions) : transactions[k].amount <= MaxTxnAmount
    /\ \A s \in stmts \cup applied : s.amount <= MaxTxnAmount

\* C6 witness: the verifier has turned down a token above the cap whose signature
\* is valid, and POST /api/sync has answered an element above the cap.
OverCapRejectedTwice ==
    /\ lastCall # <<>>
    /\ lastCall[1].token.amount > MaxTxnAmount
    /\ lastCall[1].verification = Verdict(FALSE, "Amount exceeds limit")
    /\ \E e \in Elements :
           ElementTxn(e).amount > MaxTxnAmount /\ ElementOutcome(e) = "amount_exceeded"

\* C7.  Amount positivity: every token the merchant verifier accepts and every
\* token POST /api/sync completes has amount > 0, and no balance update is issued
\* for an amount <= 0.
AmountPositive ==
    /\ \A k \in 1..Len(mstate.transactions) : mstate.transactions[k].amount > 0
    /\ \A k \in 1..Len(transactions) : transactions[k].amount > 0
    /\ \A s \in stmts \cup applied : s.amount > 0

(***************************************************************************)
(*                PROPERTIES OF THE DURABLE BALANCES                       *)
(***************************************************************************)
\* C8.  Non-negative spendable balance: in every state reached by load-balance
\* and sync requests, every user's offline_balance is >= 0.
OfflineBalanceNonNegative ==
    \A p \in Phones : users[p].offline_balance >= 0

(***************************************************************************)
(*                   PROPERTIES OF THE MERCHANT APP                        *)
(***************************************************************************)
\* C3.  Payee-side replay rejection: after the merchant has recorded counter c
\* (0 included) for a payer, every later token of that payer with a counter
\* <= c is turned down, so the counters the merchant accepted from one payer are
\* strictly increasing.  (transactions lists the accepted tokens, the newest
\* first.)
AcceptedCountersIncrease ==
    \A j \in 1..Len(mstate.transactions) : \A k \in 1..Len(mstate.transactions) :
        j < k /\ mstate.transactions[j].from = mstate.transactions[k].from
        => mstate.transactions[j].counter > mstate.transactions[k].counter

\* C9.  Session binding: the merchant accepts a token only if the payment was
\* started from the descriptor the merchant is showing when the token arrives.
AcceptedOnlyInCurrentSession ==
    lastCall # <<>> /\ lastCall[1].result.success
    => lastCall[1].session = lastCall[1].qrAtCall

\* A token that passes every check the claim C10 names, at the current state.
HappyToken(token) ==
    /\ SigVerify(TokenData(token), token.signature, token.publicKey)
    /\ token.amount > 0
    /\ token.amount <= MaxTxnAmount
    /\ token.from \in DOMAIN mstate.lastCounter => token.counter > mstate.lastCounter[token.from]
    /\ now - token.timestamp <= StaleMs

\* C10.  Happy-path acceptance: a token with a valid signature, a positive
\* amount within the cap, a counter above the last one recorded for its payer
\* and an age within the staleness window, delivered through
\* BLEService.handlePaymentWrite to the registered handler, is answered with
\* success; after a success the token is the newest entry of transactions and of
\* pendingSync, the local balance is the sum of the recorded amounts and the
\* token's counter is the payer's lastCounter.
\* (A call that is not answered with success leaves the reducer state as it
\* was, so the token is judged against the state the handler saw.)
HappyPathAccepted ==
    lastCall # <<>> /\ lastCall[1].via = "ble" /\ lastCall[1].result.error # "No handler"
    => /\ ~lastCall[1].result.success => ~HappyToken(lastCall[1].token)
       /\ lastCall[1].result.success =>
             /\ mstate.transactions # <<>>
             /\ Head(mstate.transactions).txnId = lastCall[1].token.txnId
             /\ mstate.balance = SumAmounts({ [k |-> k, amount |-> mstate.transactions[k].amount] :
                                                 k \in 1..Len(mstate.transactions) })
             /\ mstate.pendingSync # <<>>
             /\ mstate.pendingSync[Len(mstate.pendingSync)].txnId = lastCall[1].token.txnId
             /\ lastCall[1].token.from \in DOMAIN mstate.lastCounter
             /\ mstate.lastCounter[lastCall[1].token.from] = lastCall[1].token.counter

\* The token of the last call was older than the staleness window when it was
\* verified.
StaleAtCall == lastCall[1].at - lastCall[1].token.timestamp > StaleMs

SignedCountersDistinct ==
    \A i \in 1..Len(signed) : \A j \in 1..Len(signed) :
        i < j => signed[i].counter # signed[j].counter

\* C13.  Payer counter monotonicity: no step of the wallet decreases the counter
\* of the reducer state.
CounterNeverDecreases == [][wstate'.counter >= wstate.counter]_vars

\* The ways a payment attempt fails in the transport.
TransportFailures ==
    {"init", "scan_timeout", "scan_error", "connect", "discover", "write", "read", "decode"}

\* C18.  Transport failure is indeterminate, not rejection: a payment attempt
\* that ended with a transport failure has offered 'Save Offline', and one that
\* ended with the merchant's rejection has not.
TransportFailureOffersSave ==
    pay.pc = "done"
    => /\ pay.failure \in TransportFailures => pay.offered
       /\ pay.failure = "rejected" => ~pay.offered

\* C19.  Transport released on every exit: when a payment attempt has ended the
\* BLE service holds no device and is not connected.
TransportReleased ==
    pay.pc = "done" => wble.device = Null /\ ~wble.isConnected

\* C20.  No success without acknowledgment: payment status 'success' and every
\* transaction with status 'completed' belong to a token for which sendPayment
\* returned an acknowledgment with success true.
NoSuccessWithoutAck ==
    /\ pay.status = "success" => pay.token # <<>> /\ pay.token[1].txnId \in acked
    /\ \A k \in 1..Len(wstate.transactions) :
           wstate.transactions[k].status = "completed"
           => wstate.transactions[k].txnId \in acked

\* C20 witness: one payment was acknowledged and recorded as completed, and a
\* later attempt that failed in the transport was saved as pending.
AckedThenSavedPending ==
    /\ Len(wstate.transactions) = 2
    /\ wstate.transactions[2].status = "completed"
    /\ wstate.transactions[2].txnId \in acked
    /\ wstate.transactions[1].status = "pending"
    /\ wstate.transactions[1].txnId \notin acked
    /\ pay.status = "error"

(***************************************************************************)
(*              FURTHER PROPERTIES OF POST /api/sync                       *)
(***************************************************************************)
\* C14.  Atomic application: once no UPDATE of a completed token is queued any
\* more, its effects are all there: beside the transactions row, its debit has
\* been applied to a registered user and its credit to a registered merchant;
\* and an element reported 'error' has left no row and no UPDATE.
AtomicApplication ==
    /\ \A k \in 1..Len(transactions) :
           LET t == transactions[k].txn_id IN
           (\A s \in stmts : s.txnId # t)
           => /\ \E s \in applied : s.op = "debit" /\ s.txnId = t /\ s.key \in Phones
              /\ \E s \in applied : s.op = "credit" /\ s.txnId = t /\ s.key \in MerchantIds
    /\ \A e \in Elements :
           ElementOutcome(e) = "error"
           => \A s \in stmts \cup applied : ~(s.req = e[1] /\ s.idx = e[2])

\* C15.  Malformed elements are isolated: when every callback of a request has
\* run, the request has been answered once with status 200 and one outcome per
\* entry of the batch, whatever entries are malformed.
MalformedIsolated ==
    \A r \in 1..Len(reqs) :
        (\A i \in 1..Len(reqs[r].batch) : reqs[r].pc[i] \notin {"get", "insert"})
        => /\ reqs[r].sent = <<200>>
           /\ reqs[r].results = Len(reqs[r].batch)
           /\ \A i \in 1..Len(reqs[r].batch) : reqs[r].outcome[i] # ""

\* C16.  Single response: a request with a non-empty batch is answered at most
\* once, and only when every entry of the batch has its outcome (processed +
\* failed equals the batch length).
SingleResponseAfterAll ==
    \A r \in 1..Len(reqs) :
        /\ Len(reqs[r].sent) <= 1
        /\ Len(reqs[r].batch) > 0 /\ reqs[r].sent # <<>>
           => /\ reqs[r].processed + reqs[r].failed = Len(reqs[r].batch)
              /\ \A i \in 1..Len(reqs[r].batch) : reqs[r].outcome[i] # ""

\* C17.  Same-payer ordering in a batch: of two tokens of one payer completed
\* from one batch, the one with the lower counter is applied (its row inserted)
\* first.
SamePayerAscendingInBatch ==
    \A e \in Elements : \A f \in Elements :
        /\ e[1] = f[1]
        /\ ElementTxn(e).fromPhone = ElementTxn(f).fromPhone
        /\ ElementTxn(e).counter < ElementTxn(f).counter
        /\ ElementOutcome(e) = "success"
        /\ ElementOutcome(f) = "success"
        => \A j \in Existing(ElementTxn(e).txnId) :
               \A k \in Existing(ElementTxn(f).txnId) : j < k

\* C21.  Sign-time commitment: when a payment attempt whose token handlePay has
\* signed comes to its end, with or without a delivery, the token is the newest
\* entry of pendingSync and offlineBalance has gone down by its amount.
SignedTokenCommitted ==
    [][pay.pc = "send" /\ pay'.pc = "done"
       => /\ wstate'.pendingSync # <<>>
          /\ wstate'.pendingSync[Len(wstate'.pendingSync)] = pay.token[1]
          /\ wstate'.offlineBalance = Minus(wstate.offlineBalance, pay.token[1].amount)]_vars

\* C22.  Sign preconditions: a press of Pay whose amount is not a number, is
\* <= 0, is above 500 or exceeds the current offlineBalance ends in handlePay's
\* validation: the wallet state is unchanged (no counter increment), no token
\* is signed and no BLE connection is opened.
SignPreconditions ==
    [][/\ pay.pc = "idle"
       /\ pay'.attempts = pay.attempts + 1
       /\ \/ pay'.amount = NaN
          \/ pay'.amount <= 0
          \/ pay'.amount > MaxTxnAmount
          \/ wstate.offlineBalance # NaN /\ pay'.amount > wstate.offlineBalance
       => /\ pay'.pc = "idle"
          /\ pay'.status = "idle"
          /\ wstate' = wstate
          /\ signed' = signed
          /\ wble' = wble]_vars

\* A payment of 300 was refused for insufficient offline balance, with no
\* token signed and no connection open.
RefusedForBalance ==
    /\ pay.alert = "Insufficient Balance"
    /\ pay.amount = 300
    /\ pay.pc = "idle"
    /\ signed = <<>>
    /\ wble.device = Null

\* C29.  One token per spend attempt: when 'Save Offline' follows an attempt
\* whose token was transmitted over BLE, no further token is signed and the
\* entry added to pendingSync is the transmitted token (same txnId and counter).
OneTokenPerAttempt ==
    [][/\ pay.alert = "Connection Failed"
       /\ pay'.alert = "Saved"
       /\ pay.token # <<>>
       => /\ signed' = signed
          /\ wstate'.pendingSync # <<>>
          /\ LET saved == wstate'.pendingSync[Len(wstate'.pendingSync)] IN
             /\ saved.txnId = pay.token[1].txnId
             /\ saved.counter = pay.token[1].counter]_vars

\* The step in which load request l is decided: turned down by the handler
\* itself, or by the callback of its SELECT.
LoadDecided(l) ==
    \/ l > Len(loads) /\ loads'[l].pc = "done"
    \/ l <= Len(loads) /\ loads[l].pc = "get" /\ loads'[l].pc # "get"

\* The load request decided in this step would take the payer's offline_balance
\* above 2000.
LoadWouldExceed(l) ==
    users[loads'[l].phone].offline_balance + loads'[l].amount > MaxOfflineBalance

\* The load request is answered 400 with the headroom 2000 - offline_balance,
\* and the users table is left alone.
LoadRejectedWithHeadroom(l) ==
    /\ loads'[l].pc = "done"
    /\ loads'[l].status = 400
    /\ loads'[l].error = "Can only load more"
    /\ loads'[l].more = MaxOfflineBalance - users[loads'[l].phone].offline_balance
    /\ users' = users

\* C23.  Load-balance cap rejection: a load request with an amount above 0 and
\* of at most 2000 that would take offline_balance above 2000 is answered 400
\* with the exact headroom 2000 - offline_balance, and balance and
\* offline_balance are unchanged.
LoadCapRejection ==
    [][\A l \in 1..Len(loads') :
          /\ LoadDecided(l)
          /\ loads'[l].amount > 0
          /\ loads'[l].amount <= MaxOfflineBalance
          /\ LoadWouldExceed(l)
          => LoadRejectedWithHeadroom(l)]_vars

\* C23 as stated: every load request that would take offline_balance above
\* 2000, whatever its amount, is answered with the headroom.
LoadCapRejectionAnyAmount ==
    [][\A l \in 1..Len(loads') :
          LoadDecided(l) /\ LoadWouldExceed(l) => LoadRejectedWithHeadroom(l)]_vars

\* With 300 loaded, a request for 2000 was turned down reporting 1700.
LoadTurnedDownWithHeadroom ==
    \E l \in 1..Len(loads) :
        /\ loads[l].error = "Can only load more"
        /\ loads[l].amount = 2000
        /\ loads[l].more = 1700
        /\ users[loads[l].phone].offline_balance = 300

\* Timer ticks since the home screen was mounted.
TicksElapsed == (now - Start) \div TickMs

\* C24.  Session rotation period: while the home screen is mounted the
\* countdown is within 1..18, the descriptor on display was minted
\* 18 - countdown ticks ago, and the descriptors minted so far are exactly one
\* per 18 ticks (so each is later than the one before it).
RotationPeriod ==
    qr.mounted =>
        /\ qr.countdown \in 1..QrPeriod
        /\ now - qr.timestamp = (QrPeriod - qr.countdown) * TickMs
        /\ qr.minted = { Start + k * QrPeriod * TickMs : k \in 0..(TicksElapsed \div QrPeriod) }
        /\ \A t \in qr.minted : t <= qr.timestamp

\* The 18th tick has minted the second descriptor.
SecondDescriptorMinted ==
    /\ qr.mounted
    /\ Cardinality(qr.minted) = 2
    /\ qr.timestamp = Start + QrPeriod * TickMs
    /\ qr.countdown = QrPeriod

\* C25.  Rotation boundary: a payment that reaches the merchant more than
\* 18000 ms after the descriptor it was started from was minted is not accepted.
RotatedAwayRejected ==
    \A i \in 1..Len(lastCall) :
        /\ lastCall[i].session # 0
        /\ lastCall[i].at - lastCall[i].session > QrPeriod * TickMs
        => ~lastCall[i].result.success

\* C30.  Record immutability: every step keeps the rows already in the
\* transactions table, with the values they were inserted with and status
\* 'completed'; no row is updated or deleted.
RowsImmutable ==
    [][/\ Len(transactions') >= Len(transactions)
       /\ \A k \in 1..Len(transactions) :
             /\ transactions'[k] = transactions[k]
             /\ transactions'[k].status = "completed"]_vars

\* A second row has been inserted after the first and all four balance updates
\* have run; the first row is as it was inserted.
FirstRowKeptAfterSecond ==
    /\ Len(transactions) = 2
    /\ transactions[1].txn_id # transactions[2].txn_id
    /\ transactions[1].status = "completed"
    /\ stmts = {}
    /\ Cardinality(applied) = 4

\* C27.  Policy check order: verifyPaymentToken reports the freshness check
\* before the amount cap and the replay check, so a token with a valid
\* signature that is stale when it is verified is reported as 'Token expired'
\* whatever else is wrong with it.
ExpiredReportedFirst ==
    /\ lastCall # <<>>
    /\ lastCall[1].via = "context"
    /\ SigVerify(TokenData(lastCall[1].token), lastCall[1].token.signature,
                 lastCall[1].token.publicKey)
    /\ StaleAtCall
    => lastCall[1].verification.error = "Token expired"

\* The code and the time of the onScan call made in this step.
ScannedNow == scan'.last[1]

SignatureIntegrity ==
    lastCall # <<>> =>
        \A i \in 1..Len(signed) :
            /\ lastCall[1].token = signed[i]
                => lastCall[1].verification.error # "Invalid signature"
            /\ \A field \in TokenFields :
                  lastCall[1].token = Tamper(signed[i], field)
                  => lastCall[1].verification = Verdict(FALSE, "Invalid signature")

\* The first signed token reached the verifier with its amount changed and was
\* answered 'Invalid signature'.
TamperedAmountRefused ==
    /\ lastCall # <<>>
    /\ signed # <<>>
    /\ lastCall[1].token = Tamper(signed[1], "amount")
    /\ lastCall[1].verification = Verdict(FALSE, "Invalid signature")

\* C35.  Offline-balance cap under concurrency: in every state reached by
\* interleaved load-balance and sync requests, every user's offline_balance is
\* at most 2000.
OfflineBalanceCapped ==
    \A p \in Phones : users[p].offline_balance <= MaxOfflineBalance

\* C36.  Load-balance conserves and never overdraws: the UPDATE of a successful
\* load-balance request leaves balance + offline_balance of the user as it was,
\* and no interleaving of load-balance requests takes the main balance below 0.
LoadConservesNeverOverdraws ==
    [][/\ \A l \in 1..Len(loads) :
             loads[l].pc = "run" /\ loads'[l].pc = "done" =>
                 \A p \in Phones :
                     users'[p].balance + users'[p].offline_balance
                         = users[p].balance + users[p].offline_balance
       /\ \A p \in Phones : users'[p].balance >= 0]_vars

\* The sum of f over the keys in S.
RECURSIVE SumOver(_, _)
SumOver(f, S) == IF S = {} THEN 0
                 ELSE LET k == CHOOSE x \in S : TRUE
                      IN  f[k] + SumOver(f, S \ {k})

\* All users' offline_balance plus all merchants' balance.
TotalValue ==
    SumOver([p \in DOMAIN users |-> users[p].offline_balance], DOMAIN users)
        + SumOver(merchants, DOMAIN merchants)

\* C37.  Value conservation at reconciliation: once both UPDATEs of every
\* completed token have run, the users' offline balances and the merchants'
\* balances add up to what they added up to before the batches (0), also for a
\* token whose fromPhone names no registered user.
ValueConserved ==
    (/\ stmts = {}
     /\ \A k \in 1..Len(transactions) :
           /\ Issued("debit", transactions[k].txn_id) \subseteq applied
           /\ Issued("credit", transactions[k].txn_id) \subseteq applied
           /\ Issued("debit", transactions[k].txn_id) # {}
           /\ Issued("credit", transactions[k].txn_id) # {})
    => TotalValue = 0

\* C31.  Bounded exchange: every payment attempt that has entered the status
\* 'connecting' or 'sending' eventually reaches 'success' or 'error', whatever
\* the transport does.
ExchangeEnds ==
    (pay.status \in {"connecting", "sending"}) ~> (pay.status \in {"success", "error"})

\* The reason verifyPaymentToken gave in the last call names the check that the
\* token failed: each of the four reasons stands for one cause.
VerifierReasonsDistinct ==
    lastCall # <<>> /\ lastCall[1].verification.defined /\ ~lastCall[1].verification.valid
    => LET token == lastCall[1].token
           error == lastCall[1].verification.error
       IN  /\ error \in {"Invalid signature", "Amount exceeds limit",
                         "Duplicate transaction", "Token expired"}
           /\ error = "Invalid signature"
                 <=> ~SigVerify(TokenData(token), token.signature, token.publicKey)
           /\ error = "Amount exceeds limit" => token.amount > MaxTxnAmount
           /\ error = "Duplicate transaction"
                 => /\ token.from \in DOMAIN mstate.lastCounter
                    /\ token.counter <= mstate.lastCounter[token.from]
           /\ error = "Token expired" => StaleAtCall

\* The status POST /api/sync gave an element names the cause: 'duplicate' for
\* an id that has a row, 'amount_exceeded' for an amount above the cap, and
\* 'error' for a storage failure, which is not an id that has a row.
SyncReasonsDistinct ==
    \A e \in Elements :
        /\ ElementOutcome(e) = "duplicate"
              => \E k \in 1..Len(transactions) :
                     transactions[k].txn_id = ElementTxn(e).txnId
        /\ ElementOutcome(e) = "amount_exceeded" => ElementTxn(e).amount > MaxTxnAmount
        /\ ElementOutcome(e) = "error"
              => \A k \in 1..Len(transactions) :
                     transactions[k].txn_id # ElementTxn(e).txnId

\* C32.  Distinct rejection reasons: in verifyPaymentToken and in the
\* per-element statuses of POST /api/sync each cause of rejection has its own
\* reason, and two different causes never produce the same reason.
ReasonsDistinct == VerifierReasonsDistinct /\ SyncReasonsDistinct

\* The positions of the batch sent that hold the token with this id.
SentAt(txnId) == { i \in 1..Len(msync.sent) : msync.sent[i].txnId = txnId }

\* C33.  Merchant sync keeps unsynced tokens: the step that handles the answer
\* of a sync request removes a token from pendingSync only if the answer holds
\* the result 'success' or 'duplicate' for it; tokens with another result, and
\* all tokens when the request failed, stay queued.
SyncKeepsUnsynced ==
    [][msync.pc = "await" /\ msync'.pc = "idle" =>
         \A k \in 1..Len(mstate.pendingSync) :
             LET token == mstate.pendingSync[k]
                 response == msync'.response[1]
             IN  (\A j \in 1..Len(mstate'.pendingSync) : mstate'.pendingSync[j] # token)
                 => /\ response.success
                    /\ \E i \in SentAt(token.txnId) :
                          response.results[i] \in {"success", "duplicate"}]_vars

\* C34.  No token lost during sync: a token that the merchant accepted while
\* the sync request was in flight, and so was not in the batch sent, is still
\* in pendingSync after the answer has been handled.
NoTokenLostDuringSync ==
    [][msync.pc = "await" /\ msync'.pc = "idle" =>
         \A k \in 1..Len(mstate.pendingSync) :
             SentAt(mstate.pendingSync[k].txnId) = {}
             => \E j \in 1..Len(mstate'.pendingSync) :
                    mstate'.pendingSync[j] = mstate.pendingSync[k]]_vars

\* The login of a registered user that is answered by this step on connection
\* c, after its SELECT has been queued.
UserLoginAnswered(c) ==
    /\ authreqs[c].op = "login"
    /\ authreqs[c].table = "users"
    /\ authreqs[c].phone \in Registered["users"]
    /\ authreqs[c].pc \in {"get", "compare"}
    /\ authreqs'[c].pc = "done"

\* The step queues the UPDATE that writes these values to the user's row.
QueuesAttempts(phone, attempts, lockUntil) ==
    SetAttempts("users", phone, attempts, lockUntil) \in authstmts'

\* C38.  Account lockout: for user login the fifth wrong password in a row is
\* answered 423 and locks the account until 15 minutes later; while
\* locked_until is in the future a login is answered 423 and changes nothing,
\* whatever the password; a login answered 200 sets failed_attempts to 0 and
\* locked_until to NULL.
LockoutPolicy ==
    [][\A c \in Connections :
         UserLoginAnswered(c) =>
            LET request == authreqs[c]
                account == authdb.accounts["users"][request.phone]
            IN  /\ (/\ request.pc = "compare"
                    /\ request.password # Password
                    /\ authlog'.run["users"][request.phone] = LockThreshold)
                   => /\ authreqs'[c].status = 423
                      /\ QueuesAttempts(request.phone, LockThreshold,
                                        {authclock + LockMinutes})
                /\ isAccountLocked(account.locked_until, authclock)
                   => /\ authreqs'[c].status = 423
                      /\ authdb' = authdb
                      /\ authstmts' = authstmts
                /\ authreqs'[c].status = 200
                   => QueuesAttempts(request.phone, 0, {})]_vars

\* The refresh request on connection c is answered with new tokens by this step.
RefreshGranted(c) ==
    /\ authreqs[c].op = "refresh"
    /\ authreqs[c].pc = "get"
    /\ authreqs'[c].status = 200

\* C39.  Logout revokes refresh tokens: POST /api/auth/refresh grants new
\* tokens neither for a refresh token that was issued at login to a principal,
\* user or merchant, whose logout has been answered since, nor for a refresh
\* token that an earlier successful refresh was given.
LogoutRevokes ==
    [][\A c \in Connections :
         RefreshGranted(c) =>
            /\ authreqs[c].token \notin authlog.revoked
            /\ authreqs[c].token \notin authlog.spent]_vars

====
